---- MODULE Spec2Model ----
(***************************************************************************)
(* Session store and question flow of the survey bot.                      *)
(*                                                                         *)
(* The multi-language, multi-chain revision of QuestionHandler with its    *)
(* event router (index.js) is specification Spec.  JavaScript objects are  *)
(* modelled with identity: the Map `sessions` holds references into        *)
(* `heap`, and a suspended async handler keeps the reference it captured   *)
(* before its await.                                                       *)
(***************************************************************************)
EXTENDS Integers, Sequences, FiniteSets, TLC

VARIABLES
    sessions,   \* this.sessions: chatId -> reference of the session object, 0 = no entry
    heap,       \* the session objects, by reference
    tasks,      \* the async handlers suspended at an await
    files,      \* export files present on disk
    now,        \* Date.now(), in minutes
    sent,       \* transport calls made by the last step, in order
    last,       \* the inbound event or continuation that made the last step
    revision,   \* the revision of handler and router that runs: "chains" or "upload"
    cleanupInterval,    \* this.cleanupInterval: TRUE = the handle of the sweep timer, FALSE = null
    process     \* "running", "stopping" (shutdown awaits stopPolling) or "exited"

vars == <<sessions, heap, tasks, files, now, sent, last, revision, cleanupInterval, process>>

----------------------------------------------------------------------------
(* Bounds *)

MaxTasks == 2       \* handlers suspended at the same time
MaxTime == 31       \* the clock stops here
MaxClock == 49      \* the clock of the specification with the sweep timer stops here

ChatIds == {1, 2}
TaskIds == 1..MaxTasks
ObjIds == 1..(Cardinality(ChatIds) + MaxTasks)
AdvanceSteps == {10, 31}    \* minutes that pass between two events

----------------------------------------------------------------------------
(* Program constants and static configuration *)

SESSION_TIMEOUT_MS == 30    \* minutes
SWEEP_INTERVAL == 10        \* minutes between two runs of cleanupStaleSessions
MAX_ANSWER_LENGTH == 4000

Langs == {"ru", "uk"}               \* callback_data lang_ru, lang_uk (lang_en is routed alike)
RoutedChains == {1, 2}              \* callback_data start_chain_1, start_chain_2
OfferedChains == {1, 2, 3}          \* the lesson buttons of the menu: start_chain_1, _2, _3

\* config.questions.length of a language and chain
QuestionCount(lang, chain) == IF chain = 2 THEN 1 ELSE 2

\* getChainConfig(lang, chain).questions: question i is named by its list and index
getChainConfig(lang, chain) ==
    [i \in 1..QuestionCount(lang, chain) |-> <<lang, chain, i>>]

\* questions[index] for a zero-based index; undefined past the end of the array
QuestionAt(questions, index) ==
    IF index + 1 \in DOMAIN questions THEN questions[index + 1] ELSE <<"undefined">>

----------------------------------------------------------------------------
(* Texts: leading whitespace, body, trailing whitespace *)

BodyLen(body) ==
    CASE body = "" -> 0
      [] body = "b3998" -> 3998
      [] body = "b4000" -> 4000
      [] body = "/start" -> 6
      [] body = "/help" -> 5

Text(lead, body, trail) == [lead |-> lead, body |-> body, trail |-> trail]

Texts ==
    { Text(1, "b3998", 1),      \* 4000 characters, 3998 after trim
      Text(2, "", 0),           \* blank
      Text(0, "b4000", 1),      \* 4001 characters, 4000 after trim
      Text(0, "/start", 0), Text(0, "/help", 0) }

\* text.length
Length(t) == t.lead + BodyLen(t.body) + t.trail

\* text.trim()
Trim(t) == [t EXCEPT !.lead = 0, !.trail = 0]

\* text.startsWith('/')
StartsWithSlash(t) == t.lead = 0 /\ t.body \in {"/start", "/help"}

\* /^\/start/.test(text)
IsStartCommand(t) == t.lead = 0 /\ t.body = "/start"

----------------------------------------------------------------------------
(* Session objects *)

Null == <<"null">>
Free == [lang |-> "-", chain |-> 0, currentIndex |-> 0, answers |-> <<>>,
         summary |-> Null, lastActivity |-> 0]

Idle == [pc |-> "idle", chat |-> 0, obj |-> 0, lang |-> "-", chain |-> 0]

\* the objects a store and a set of suspended handlers still refer to
Referenced(s, t) ==
    {s[c] : c \in ChatIds} \cup {t[k].obj : k \in TaskIds}

\* An object no longer in the store is reachable only through the handlers that
\* captured it.  They read its answers, lang and chain when they call
\* generateSummary and its lang and chain afterwards; its other fields are
\* never read again, and an object nobody refers to is gone.
Detached(o, s, t) ==
    [lang |-> o.lang, chain |-> o.chain, currentIndex |-> 0,
     answers |-> o.answers, summary |-> Null, lastActivity |-> 0]

Collect(h, s, t) ==
    [o \in ObjIds |->
        IF o \in {s[c] : c \in ChatIds} THEN h[o]
        ELSE IF \E k \in TaskIds : t[k].obj = o /\ t[k].pc = "notice"
             THEN Detached(h[o], s, t)
        ELSE IF \E k \in TaskIds : t[k].obj = o
             THEN [Detached(h[o], s, t) EXCEPT !.answers = <<>>]
        ELSE Free]

\* the reference a new object gets
NewRef(s, t, c) ==
    IF c \notin Referenced(s, t) THEN c
    ELSE CHOOSE o \in ObjIds \ Referenced(s, t) :
            \A p \in ObjIds \ Referenced(s, t) : o <= p

\* a process that starts no handler while another one is suspended
FreeSlots_Serial(t, slots) ==
    IF \A k \in TaskIds : t[k].pc = "idle" THEN slots ELSE {}

\* the handler slots among `slots` that are not in use, and the one a new handler takes
FreeSlots(t, slots) == {k \in slots : t[k].pc = "idle"}
NewSlot(t, slots) ==
    IF FreeSlots(t, slots) = {} THEN 0
    ELSE CHOOSE k \in FreeSlots(t, slots) : \A j \in FreeSlots(t, slots) : k <= j

\* a handler that ran to its end
Release(t, k) == IF k \in TaskIds THEN [t EXCEPT ![k] = Idle] ELSE t

HasSession(s, c) == s[c] # 0

\* getSession(chatId): the session object's fields, or Null
getSession(s, h, c) == IF HasSession(s, c) THEN h[s[c]] ELSE Null

NewSession(lang, chain, t) ==
    [lang |-> lang, chain |-> chain, currentIndex |-> 0, answers |-> <<>>,
     summary |-> Null, lastActivity |-> t]

\* startSession resetting the fields of the object already stored
startSession_Reuse(s, h, t, c, lang, chain) ==
    LET ref == IF HasSession(s, c) THEN s[c] ELSE NewRef(s, t, c)
    IN  [s |-> [s EXCEPT ![c] = ref],
         h |-> [h EXCEPT ![ref] = [NewSession(lang, chain, now) EXCEPT
                                      !.answers = h[ref].answers]]]

\* startSession(chatId, lang, chain): the store and heap after this.sessions.set
startSession(s, h, t, c, lang, chain) ==
    LET ref == NewRef([s EXCEPT ![c] = 0], t, c)
    IN  [s |-> [s EXCEPT ![c] = ref],
         h |-> [h EXCEPT ![ref] = NewSession(lang, chain, now)]]

\* clearSession emptying the whole Map
clearSession_All(s, c) == [d \in ChatIds |-> 0]

\* clearSession putting an entry back instead of deleting it
clearSession_Set(s, c) == [s EXCEPT ![c] = c]

\* clearSession(chatId): this.sessions.delete
clearSession(s, c) == [s EXCEPT ![c] = 0]

\* cleanup cancelling the timer and leaving the Map as it is
cleanup_KeepSessions(s, timer) == [s |-> s, cleanupInterval |-> FALSE]

\* cleanup(): clearInterval and this.cleanupInterval = null when the handle
\* is set, then this.sessions.clear()
cleanup(s, timer) ==
    [s |-> [c \in ChatIds |-> 0],
     cleanupInterval |-> IF timer THEN FALSE ELSE timer]

\* cleanupStaleSessions keeping a session for one more sweep interval
cleanupStaleSessions_Lenient(s, h, t) ==
    [c \in ChatIds |->
        IF HasSession(s, c) /\ t - h[s[c]].lastActivity > SESSION_TIMEOUT_MS + SWEEP_INTERVAL
        THEN 0 ELSE s[c]]

\* cleanupStaleSessions removing a session already at the timeout
cleanupStaleSessions_AtTimeout(s, h, t) ==
    [c \in ChatIds |->
        IF HasSession(s, c) /\ t - h[s[c]].lastActivity >= SESSION_TIMEOUT_MS
        THEN 0 ELSE s[c]]

\* cleanupStaleSessions(): the store after the sweep
cleanupStaleSessions(s, h, t) ==
    [c \in ChatIds |->
        IF HasSession(s, c) /\ t - h[s[c]].lastActivity > SESSION_TIMEOUT_MS
        THEN 0 ELSE s[c]]

\* getSessionQuestions(chatId)
getSessionQuestions(s, h, c) ==
    IF HasSession(s, c)
    THEN getChainConfig(h[s[c]].lang, h[s[c]].chain)
    ELSE getChainConfig("ru", 1)

----------------------------------------------------------------------------
(* One step: the new store, heap and handlers, what was sent, what ran *)

Commit(s, h, t, f, out, ev) ==
    /\ process # "exited"
    /\ sessions' = s
    /\ tasks' = t
    /\ heap' = Collect(h, s, t)
    /\ files' = f
    /\ sent' = out
    /\ last' = ev
    /\ now' = now
    /\ revision' = revision
    /\ cleanupInterval' = cleanupInterval
    /\ process' = process

Effect(s, h, t, f, out) == [s |-> s, h |-> h, t |-> t, f |-> f, out |-> out]

Msg(c, kind, payload) == <<"msg", c, kind, payload>>

Suspend(t, k, pc, c, obj, lang, chain) ==
    [t EXCEPT ![k] = [pc |-> pc, chat |-> c, obj |-> obj, lang |-> lang, chain |-> chain]]

\* generateAndSendSummary giving up after the notice
generateAndSendSummary_Drop(s, h, t, f, c, k) ==
    IF ~HasSession(s, c)
    THEN Effect(s, h, Release(t, k), f, <<>>)
    ELSE Effect(s, h, Release(t, k), f, <<Msg(c, "analyzing", h[s[c]].lang)>>)

\* generateAndSendSummary(chatId) up to its first await, run by handler k
generateAndSendSummary(s, h, t, f, c, k) ==
    IF ~HasSession(s, c)
    THEN Effect(s, h, Release(t, k), f, <<>>)
    ELSE Effect(s, h,
                Suspend(t, k, "notice", c, s[c], h[s[c]].lang, h[s[c]].chain),
                f, <<Msg(c, "analyzing", h[s[c]].lang)>>)

\* sendNextQuestion starting a session when it finds none
sendNextQuestion_Recreate(s, h, t, f, c, k) ==
    LET st == IF ~HasSession(s, c) THEN startSession(s, h, t, c, "ru", 1)
              ELSE [s |-> s, h |-> h]
        session == st.h[st.s[c]]
        questions == getChainConfig(session.lang, session.chain)
        index == session.currentIndex
    IN  IF index >= Len(questions)
        THEN generateAndSendSummary(st.s, st.h, t, f, c, k)
        ELSE Effect(st.s, st.h, Release(t, k), f,
                    <<Msg(c, "question",
                          <<index + 1, Len(questions), QuestionAt(questions, index)>>)>>)

\* sendNextQuestion sending the first question again instead of the one at the cursor
sendNextQuestion_First(s, h, t, f, c, k) ==
    IF ~HasSession(s, c)
    THEN Effect(s, h, Release(t, k), f, <<>>)
    ELSE LET session == h[s[c]]
             questions == getChainConfig(session.lang, session.chain)
             index == session.currentIndex
         IN  IF index >= Len(questions)
             THEN generateAndSendSummary(s, h, t, f, c, k)
             ELSE Effect(s, h, Release(t, k), f,
                         <<Msg(c, "question", <<1, Len(questions), QuestionAt(questions, 0)>>)>>)

\* sendNextQuestion(chatId), run by handler k
sendNextQuestion(s, h, t, f, c, k) ==
    IF ~HasSession(s, c)
    THEN Effect(s, h, Release(t, k), f, <<>>)
    ELSE LET session == h[s[c]]
             questions == getChainConfig(session.lang, session.chain)
             index == session.currentIndex
         IN  IF index >= Len(questions)
             THEN generateAndSendSummary(s, h, t, f, c, k)
             ELSE Effect(s, h, Release(t, k), f,
                         <<Msg(c, "question",
                               <<index + 1, Len(questions), QuestionAt(questions, index)>>)>>)

\* handleAnswer rejecting a text of exactly the maximum length
handleAnswer_RejectAtLimit(s, h, t, f, c, text, k) ==
    IF ~HasSession(s, c)
    THEN Effect(s, h, t, f,
                IF StartsWithSlash(text) THEN <<>> ELSE <<Msg(c, "expired", "ru")>>)
    ELSE LET ref == s[c]
             session == h[ref]
             questions == getChainConfig(session.lang, session.chain)
             touched == [session EXCEPT !.lastActivity = now]
         IN  IF Length(text) >= MAX_ANSWER_LENGTH
             THEN Effect(s, [h EXCEPT ![ref] = touched], Release(t, k), f,
                         <<Msg(c, "answerTooLong", session.lang)>>)
             ELSE Effect(s,
                         [h EXCEPT ![ref] =
                             [touched EXCEPT
                                !.answers = Append(@,
                                    [question |-> QuestionAt(questions, session.currentIndex),
                                     answer |-> Trim(text)]),
                                !.currentIndex = @ + 1]],
                         Suspend(t, k, "delay", c, 0, "-", 0),
                         f, <<>>)

\* handleAnswer moving the cursor before it labels the answer
handleAnswer_LabelAfter(s, h, t, f, c, text, k) ==
    IF ~HasSession(s, c)
    THEN Effect(s, h, t, f,
                IF StartsWithSlash(text) THEN <<>> ELSE <<Msg(c, "expired", "ru")>>)
    ELSE LET ref == s[c]
             session == h[ref]
             questions == getChainConfig(session.lang, session.chain)
             touched == [session EXCEPT !.lastActivity = now]
         IN  IF Length(text) > MAX_ANSWER_LENGTH
             THEN Effect(s, [h EXCEPT ![ref] = touched], t, f,
                         <<Msg(c, "answerTooLong", session.lang)>>)
             ELSE Effect(s,
                         [h EXCEPT ![ref] =
                             [touched EXCEPT
                                !.answers = Append(@,
                                    [question |-> QuestionAt(questions, session.currentIndex + 1),
                                     answer |-> Trim(text)]),
                                !.currentIndex = @ + 1]],
                         Suspend(t, k, "delay", c, 0, "-", 0),
                         f, <<>>)

\* handleAnswer with the length check falling through instead of returning
handleAnswer_NoReturn(s, h, t, f, c, text, k) ==
    IF ~HasSession(s, c)
    THEN Effect(s, h, t, f, <<>>)
    ELSE LET ref == s[c]
             session == h[ref]
             questions == getChainConfig(session.lang, session.chain)
         IN  Effect(s,
                    [h EXCEPT ![ref] =
                        [session EXCEPT
                           !.lastActivity = now,
                           !.answers = Append(@,
                               [question |-> QuestionAt(questions, session.currentIndex),
                                answer |-> Trim(text)]),
                           !.currentIndex = @ + 1]],
                    IF k \in TaskIds THEN Suspend(t, k, "delay", c, 0, "-", 0) ELSE t,
                    f,
                    IF Length(text) > MAX_ANSWER_LENGTH
                    THEN <<Msg(c, "answerTooLong", session.lang)>> ELSE <<>>)

\* handleAnswer(chatId, text) up to its first await, run by handler k
handleAnswer(s, h, t, f, c, text, k) ==
    IF ~HasSession(s, c)
    THEN Effect(s, h, t, f,
                IF StartsWithSlash(text) THEN <<>> ELSE <<Msg(c, "expired", "ru")>>)
    ELSE LET ref == s[c]
             session == h[ref]
             questions == getChainConfig(session.lang, session.chain)
             touched == [session EXCEPT !.lastActivity = now]
         IN  IF Length(text) > MAX_ANSWER_LENGTH
             THEN Effect(s, [h EXCEPT ![ref] = touched], t, f,
                         <<Msg(c, "answerTooLong", session.lang)>>)
             ELSE Effect(s,
                         [h EXCEPT ![ref] =
                             [touched EXCEPT
                                !.answers = Append(@,
                                    [question |-> QuestionAt(questions, session.currentIndex),
                                     answer |-> Trim(text)]),
                                !.currentIndex = @ + 1]],
                         Suspend(t, k, "delay", c, 0, "-", 0),
                         f, <<>>)

\* handleStart(msg): the language menu; the store is not touched
handleStart(s, h, t, f, c) ==
    Effect(s, h, t, f, <<Msg(c, "languageMenu", Langs)>>)

\* handleLanguageSelect(chatId, lang)
handleLanguageSelect(s, h, t, f, c, lang) ==
    LET st == startSession(s, h, t, c, lang, 1)
    IN  Effect(st.s, st.h, t, f, <<Msg(c, "lessonMenu", OfferedChains)>>)

\* handleChainSelect resetting the cursor but keeping the answers
handleChainSelect_KeepAnswers(s, h, t, f, c, chainId) ==
    LET st == IF ~HasSession(s, c)
              THEN startSession(s, h, t, c, "ru", chainId)
              ELSE [s |-> s,
                    h |-> [h EXCEPT ![s[c]] =
                             [@ EXCEPT !.chain = chainId, !.currentIndex = 0,
                                       !.summary = Null]]]
         lang == st.h[st.s[c]].lang
    IN  Effect(st.s, st.h, t, f,
               <<Msg(c, "introMessage", <<lang, chainId>>), Msg(c, "startMenu", lang)>>)

\* handleChainSelect(chatId, chainId)
handleChainSelect(s, h, t, f, c, chainId) ==
    LET st == IF ~HasSession(s, c)
              THEN startSession(s, h, t, c, "ru", chainId)
              ELSE [s |-> s,
                    h |-> [h EXCEPT ![s[c]] =
                             [@ EXCEPT !.chain = chainId, !.currentIndex = 0,
                                       !.answers = <<>>, !.summary = Null]]]
         lang == st.h[st.s[c]].lang
    IN  Effect(st.s, st.h, t, f,
               <<Msg(c, "introMessage", <<lang, chainId>>), Msg(c, "startMenu", lang)>>)

\* handleStartQuestions(chatId), run by handler k
handleStartQuestions(s, h, t, f, c, k) ==
    LET st == IF ~HasSession(s, c)
              THEN startSession(s, h, t, c, "ru", 1)
              ELSE [s |-> s, h |-> h]
    IN  sendNextQuestion(st.s, st.h, t, f, c, k)

\* the locale of the date and time lines
Locale(lang) == IF lang = "uk" THEN "uk-UA" ELSE IF lang = "en" THEN "en-US" ELSE "ru-RU"

RECURSIVE Blocks(_, _, _, _)
\* session.answers.forEach((qa, i) => ...): the blocks of the answers from
\* zero-based index i on; the label of answer i carries the number i + base
Blocks(lang, answers, i, base) ==
    IF i >= Len(answers) THEN <<>>
    ELSE <<<<"questionLabel", lang, i + base>>, <<"text", answers[i + 1].question>>,
           <<"answerLabel", lang>>, <<"text", answers[i + 1].answer>>, <<"separator">>>>
         \o Blocks(lang, answers, i + 1, base)

\* the analysis section: session.summary || exp.analysisUnavailable
Analysis(session) ==
    IF session.summary \in {Null, <<"empty">>}
    THEN <<"analysisUnavailable", session.lang>>
    ELSE session.summary

\* the document written with question labels counted from 0
Render_ZeroBased(session) ==
    <<<<"header", session.lang>>, <<"date", Locale(session.lang)>>,
      <<"time", Locale(session.lang)>>, <<"answers", session.lang>>>>
    \o Blocks(session.lang, session.answers, 0, 0)
    \o <<<<"analysisHeader", session.lang>>, Analysis(session),
          <<"congratsFooter", session.lang>>>>

\* the document saveResults writes, section by section
Render(session) ==
    <<<<"header", session.lang>>, <<"date", Locale(session.lang)>>,
      <<"time", Locale(session.lang)>>, <<"answers", session.lang>>>>
    \o Blocks(session.lang, session.answers, 0, 1)
    \o <<<<"analysisHeader", session.lang>>, Analysis(session),
          <<"congratsFooter", session.lang>>>>

\* saveResults without the early return for a missing session
saveResults_NoGuard(s, h, t, f, c, k) ==
    LET session == IF HasSession(s, c) THEN h[s[c]] ELSE Free
    IN  Effect(s, h,
               IF k \in TaskIds THEN Suspend(t, k, "senddoc", c, 0, session.lang, 0) ELSE t,
               f \cup {<<c, k>>},
               <<<<"doc", c, <<c, k>>, Render(session)>>>>)

\* saveResults marking the session as active
saveResults_Touch(s, h, t, f, c, k) ==
    IF ~HasSession(s, c)
    THEN Effect(s, h, t, f, <<Msg(c, "noDataToSave", "ru")>>)
    ELSE Effect(s, [h EXCEPT ![s[c]] = [@ EXCEPT !.lastActivity = now]],
                Suspend(t, k, "senddoc", c, 0, h[s[c]].lang, 0),
                f \cup {<<c, k>>},
                <<<<"doc", c, <<c, k>>, Render(h[s[c]])>>>>)

\* saveResults(chatId) up to the await of sendDocument, run by handler k
saveResults(s, h, t, f, c, k) ==
    IF ~HasSession(s, c)
    THEN Effect(s, h, t, f, <<Msg(c, "noDataToSave", "ru")>>)
    ELSE Effect(s, h,
                Suspend(t, k, "senddoc", c, 0, h[s[c]].lang, 0),
                f \cup {<<c, k>>},
                <<<<"doc", c, <<c, k>>, Render(h[s[c]])>>>>)

\* handleRestart(chatId)
handleRestart(s, h, t, f, c) ==
    handleStart(clearSession(s, c), h, t, f, c)

\* the handler singleton after construction, in revision rev
Boot(rev) ==
    /\ sessions = [c \in ChatIds |-> 0]
    /\ heap = [o \in ObjIds |-> Free]
    /\ tasks = [k \in TaskIds |-> Idle]
    /\ files = {}
    /\ now = 0
    /\ sent = <<>>
    /\ last = <<"init">>
    /\ revision = rev
    /\ cleanupInterval = TRUE
    /\ process = "running"

Init == Boot("chains")

Do(e, ev) == Commit(e.s, e.h, e.t, e.f, e.out, ev)

----------------------------------------------------------------------------
(* Inbound events, as index.js routes them *)

\* the router handing commands to handleAnswer as well
onMessage_NoSlashCheck(s, h, c, text) ==
    /\ HasSession(s, c)
    /\ h[s[c]].currentIndex < Len(getSessionQuestions(s, h, c))

\* the router without its check of the questioning phase
onMessage_NoPhaseCheck(s, h, c, text) ==
    /\ ~StartsWithSlash(text)
    /\ HasSession(s, c)

\* botService.onMessage: the texts the router hands to handleAnswer
onMessage(s, h, c, text) ==
    /\ ~StartsWithSlash(text)
    /\ HasSession(s, c)
    /\ h[s[c]].currentIndex < Len(getSessionQuestions(s, h, c))

\* a text message: botService.onText(/^\/start/) and botService.onMessage both see it
TextMessage(c, text, slots) ==
    IF IsStartCommand(text)
    THEN Do(handleStart(sessions, heap, tasks, files, c), <<"text", c, text>>)
    ELSE IF onMessage(sessions, heap, c, text)
         THEN /\ Length(text) <= MAX_ANSWER_LENGTH => FreeSlots(tasks, slots) # {}
              /\ Do(handleAnswer(sessions, heap, tasks, files, c, text, NewSlot(tasks, slots)),
                    <<"text", c, text>>)
         ELSE Do(Effect(sessions, heap, tasks, files, <<>>), <<"text", c, text>>)

\* callback_query lang_ru, lang_uk, lang_en
LanguageClick(c, lang) ==
    /\ c \in ChatIds
    /\ Do(handleLanguageSelect(sessions, heap, tasks, files, c, lang), <<"lang", c, lang>>)

\* callback_query start_chain_1, start_chain_2
ChainClick(c, chainId) ==
    /\ c \in ChatIds
    /\ Do(handleChainSelect(sessions, heap, tasks, files, c, chainId), <<"chain", c, chainId>>)

\* callback_query start_questions
StartQuestionsClick(c, slots) ==
    /\ (HasSession(sessions, c)
          /\ heap[sessions[c]].currentIndex >= Len(getSessionQuestions(sessions, heap, c)))
       => FreeSlots(tasks, slots) # {}
    /\ Do(handleStartQuestions(sessions, heap, tasks, files, c, NewSlot(tasks, slots)),
          <<"start_questions", c>>)

\* callback_query save_results
SaveClick(c, slots) ==
    /\ HasSession(sessions, c) => FreeSlots(tasks, slots) # {}
    /\ Do(saveResults(sessions, heap, tasks, files, c, NewSlot(tasks, slots)), <<"save_results", c>>)

\* callback_query restart
RestartClick(c) ==
    /\ c \in ChatIds
    /\ Do(handleRestart(sessions, heap, tasks, files, c),
          <<"restart", c, HasSession(sessions, c)>>)

----------------------------------------------------------------------------
(* Continuations of suspended handlers *)

\* handleAnswer after the 500 ms delay
DelayElapsed(k) ==
    /\ tasks[k].pc = "delay"
    /\ Do(sendNextQuestion(sessions, heap, tasks, files, tasks[k].chat, k),
          <<"delay", tasks[k].chat, k>>)

\* generateAndSendSummary after the analyzing notice: typing indicator, then
\* generateSummary(session.answers, session.lang, session.chain) is called
NoticeSent(k) ==
    /\ tasks[k].pc = "notice"
    /\ LET c == tasks[k].chat
           session == heap[tasks[k].obj]
       IN  Do(Effect(sessions, heap,
                     Suspend(tasks, k, "ai", c, tasks[k].obj, session.lang, session.chain),
                     files,
                     <<<<"typing", c>>,
                       <<"generateSummary", c, session.answers, session.lang, session.chain>>>>),
              <<"notice", c, k>>)

AiOutcomes == {"text", "empty", "failed"}

\* what generateSummary resolves with
generateSummary(outcome, lang, chain) ==
    CASE outcome = "text" -> <<"ai">>
      [] outcome = "empty" -> <<"empty">>
      [] outcome = "failed" -> <<"fallback", lang, chain>>

\* What the HTTP call of generateSummary can end in: a response whose content
\* is a text, a response whose content is blank after trim() and the removal
\* of '#', a response body without choices[0].message.content, no response
\* within the 120 s timeout, a network error, an error status.
HttpResults == {"content", "blank", "malformed", "timeout", "network", "status"}

\* generateSummary without its try and catch
generateSummaryRun_NoCatch(hasKey, http, lang, chain) ==
    IF ~hasKey
    THEN [value |-> generateSummary("failed", lang, chain), requests |-> 0, threw |-> FALSE]
    ELSE IF http \in {"malformed", "timeout", "network", "status"}
         THEN [value |-> <<"undefined">>, requests |-> 1, threw |-> TRUE]
         ELSE [value |-> generateSummary(IF http = "blank" THEN "empty" ELSE "text",
                                         lang, chain),
               requests |-> 1, threw |-> FALSE]

\* One run of generateSummary(answers, lang, chain): what it resolves with,
\* the requests it issued, whether it threw.  Without an API key it returns
\* the fallback before the try block; axios.post rejecting and the read of
\* response.data.choices[0].message.content throwing both end in the catch
\* block, which returns the fallback.
generateSummaryRun(hasKey, http, lang, chain) ==
    IF ~hasKey
    THEN [value |-> generateSummary("failed", lang, chain), requests |-> 0, threw |-> FALSE]
    ELSE IF http \in {"malformed", "timeout", "network", "status"}
         THEN [value |-> generateSummary("failed", lang, chain), requests |-> 1,
               threw |-> FALSE]
         ELSE [value |-> generateSummary(IF http = "blank" THEN "empty" ELSE "text",
                                         lang, chain),
               requests |-> 1, threw |-> FALSE]

\* generateAndSendSummary storing the session it captured back into the Map
SummaryReady_PutBack(k, outcome) ==
    /\ tasks[k].pc = "ai"
    /\ LET c == tasks[k].chat
           ref == tasks[k].obj
           summary == generateSummary(outcome, tasks[k].lang, tasks[k].chain)
           h == [heap EXCEPT ![ref] = [@ EXCEPT !.summary = summary]]
       IN  Do(Effect([sessions EXCEPT ![c] = ref], h, [tasks EXCEPT ![k] = Idle], files,
                     <<Msg(c, "deepAnalysis", summary)>>),
              <<"summary", c, k>>)

\* generateAndSendSummary after generateSummary resolved
SummaryReady(k, outcome) ==
    /\ tasks[k].pc = "ai"
    /\ LET c == tasks[k].chat
           ref == tasks[k].obj
           summary == generateSummary(outcome, tasks[k].lang, tasks[k].chain)
           h == [heap EXCEPT ![ref] = [@ EXCEPT !.summary = summary]]
       IN  Do(Effect(sessions, h, [tasks EXCEPT ![k] = Idle], files,
                     <<Msg(c, "deepAnalysis", summary),
                       Msg(c, "congratsMessage", <<h[ref].lang, h[ref].chain>>),
                       Msg(c, "saveMenu", h[ref].lang)>>),
              <<"summary", c, k>>)

\* saveResults after sendDocument resolved: the file is unlinked
DocumentSent(k) ==
    /\ tasks[k].pc = "senddoc"
    /\ LET c == tasks[k].chat
       IN  Do(Effect(sessions, heap, [tasks EXCEPT ![k] = Idle], files \ {<<c, k>>},
                     <<Msg(c, "resultsSaved", tasks[k].lang)>>),
              <<"document", c, k>>)

----------------------------------------------------------------------------
(* Timer and clock *)

\* setInterval(() => this.cleanupStaleSessions(), 10 minutes)
Sweep ==
    /\ cleanupInterval
    /\ LET swept == cleanupStaleSessions(sessions, heap, now)
       IN  Do(Effect(swept, heap, tasks, files, <<>>),
              <<"sweep", 0, {c \in ChatIds : swept[c] # sessions[c]}>>)

Advance(d) ==
    /\ now + d <= MaxTime
    /\ now' = now + d
    /\ sent' = <<>>
    /\ last' = <<"advance", 0>>
    /\ UNCHANGED <<sessions, heap, tasks, files, revision, cleanupInterval, process>>

\* the events of conversations `chats`, with inputs from the given sets
Step(chats, slots, langs, texts, steps) ==
    \/ \E c \in chats, text \in texts : TextMessage(c, text, slots)
    \/ \E c \in chats, lang \in langs : LanguageClick(c, lang)
    \/ \E c \in chats, chainId \in RoutedChains : ChainClick(c, chainId)
    \/ \E c \in chats : StartQuestionsClick(c, slots)
    \/ \E c \in chats : SaveClick(c, slots)
    \/ \E c \in chats : RestartClick(c)
    \/ \E k \in TaskIds : DelayElapsed(k)
    \/ \E k \in TaskIds : NoticeSent(k)
    \/ \E k \in TaskIds, outcome \in AiOutcomes : SummaryReady(k, outcome)
    \/ \E k \in TaskIds : DocumentSent(k)
    \/ Sweep
    \/ \E d \in steps : Advance(d)

\* one conversation with one handler suspended at a time, every input
Next == Step({1}, {1}, Langs, Texts, AdvanceSteps)

Spec == Init /\ [][Next]_vars

----------------------------------------------------------------------------
(* The single-chain revision with transcript import (handler and router of  *)
(* the upload_txt button).  Its sessions have no lang and chain fields; the *)
(* one question list is modelled as the list of "ru", chain 1.              *)

Line(kind, text) == [kind |-> kind, text |-> text]

\* Lines of an uploaded file after trim(), by the pattern they match:
\* "Q" a question marker (text: what is left of the line without the marker),
\* "A" an answer marker, "D" a line of rule characters, "T" any other line
\* (text "" for an empty one).
Documents ==
    { <<>>,
      <<Line("T", "hello"), Line("T", "")>>,
      <<Line("Q", "q1"), Line("A", ""), Line("T", "a1")>>,
      <<Line("Q", "q1"), Line("T", "a1"), Line("T", "a2"), Line("D", "---")>>,
      <<Line("Q", "q1"), Line("A", ""), Line("T", "a1"), Line("D", "---"),
        Line("Q", "q2"), Line("T", "a2")>>,
      <<Line("Q", "q1"), Line("T", "a1"), Line("Q", "q2"), Line("T", "a2"),
        Line("Q", "q3"), Line("T", "a3")>>,
      <<Line("Q", ""), Line("T", "q1"), Line("T", ""), Line("A", ""), Line("T", "a1"),
        Line("D", "---")>>,
      <<Line("Q", "q1"), Line("A", "")>> }

RECURSIVE Join(_)
\* currentAnswer.join('\n')
Join(lines) ==
    IF lines = <<>> THEN ""
    ELSE IF Len(lines) = 1 THEN lines[1]
    ELSE lines[1] \o "\n" \o Join(Tail(lines))

\* qaPairs.push({question, answer}) when a question with answer lines is open
PushPair(pairs, q, ans) ==
    IF q # "" /\ ans # <<>>
    THEN Append(pairs, [question |-> <<"file", q>>, answer |-> Text(0, Join(ans), 0)])
    ELSE pairs

RECURSIVE ParseLines(_, _, _, _, _)
ParseLines(lines, pairs, q, ans, inAnswer) ==
    IF lines = <<>> THEN PushPair(pairs, q, ans)
    ELSE LET line == Head(lines)
             rest == Tail(lines)
         IN  IF line.kind = "Q"
             THEN ParseLines(rest, PushPair(pairs, q, ans), line.text, <<>>, FALSE)
             ELSE IF line.kind = "A"
             THEN ParseLines(rest, pairs, q, ans, TRUE)
             ELSE IF inAnswer /\ line.text # ""
             THEN ParseLines(rest, pairs, q, Append(ans, line.text), inAnswer)
             ELSE IF q # "" /\ line.text # "" /\ line.kind # "D"
             THEN ParseLines(rest, pairs, q, Append(ans, line.text), inAnswer)
             ELSE ParseLines(rest, pairs, q, ans, inAnswer)

\* parseQAFromText(content)
parseQAFromText(content) == ParseLines(content, <<>>, "", <<>>, FALSE)

\* handleStart(msg) of this revision: the session is created here
handleStartV1(s, h, t, f, c) ==
    LET st == startSession(s, h, t, c, "ru", 1)
    IN  Effect(st.s, st.h, t, f, <<Msg(c, "introMessage", "ru"), Msg(c, "startMenu", "ru")>>)

\* handleAnswer(chatId, text) of this revision: silent without a session
handleAnswerV1(s, h, t, f, c, text, k) ==
    IF ~HasSession(s, c) THEN Effect(s, h, t, f, <<>>)
    ELSE handleAnswer(s, h, t, f, c, text, k)

\* handleRestart(chatId) of this revision
handleRestartV1(s, h, t, f, c) ==
    handleStartV1(clearSession(s, c), h, t, f, c)

\* handleUploadedFile without the check for an empty list of pairs
handleUploadedFile_NoEmptyCheck(s, h, t, f, c, downloaded, content, k) ==
    IF ~downloaded
    THEN Effect(s, h, t, f, <<Msg(c, "uploadError", "ru")>>)
    ELSE LET qaPairs == parseQAFromText(content)
             ref == NewRef([s EXCEPT ![c] = 0], t, c)
         IN  Effect([s EXCEPT ![c] = ref],
                    [h EXCEPT ![ref] =
                        [NewSession("ru", 1, now) EXCEPT
                           !.currentIndex = Len(qaPairs), !.answers = qaPairs]],
                    Suspend(t, k, "uploaded", c, 0, "-", 0),
                    f,
                    <<Msg(c, "fileReceived", Len(qaPairs)), <<"typing", c>>>>)

\* handleUploadedFile(chatId, fileId, fileName) once the download has ended,
\* up to the await that follows the 'file received' message, run by handler k
handleUploadedFile(s, h, t, f, c, downloaded, content, k) ==
    IF ~downloaded
    THEN Effect(s, h, t, f, <<Msg(c, "uploadError", "ru")>>)
    ELSE LET qaPairs == parseQAFromText(content)
             ref == NewRef([s EXCEPT ![c] = 0], t, c)
         IN  IF Len(qaPairs) = 0
             THEN Effect(s, h, t, f, <<Msg(c, "noAnswersInFile", "ru")>>)
             ELSE Effect([s EXCEPT ![c] = ref],
                         [h EXCEPT ![ref] =
                             [NewSession("ru", 1, now) EXCEPT
                                !.currentIndex = Len(qaPairs), !.answers = qaPairs]],
                         Suspend(t, k, "uploaded", c, 0, "-", 0),
                         f,
                         <<Msg(c, "fileReceived", Len(qaPairs)), <<"typing", c>>>>)

\* botService.onMessage of this revision
onMessageV1(s, h, c, text) ==
    /\ ~StartsWithSlash(text)
    /\ HasSession(s, c)
    /\ h[s[c]].currentIndex < Len(getChainConfig("ru", 1))

TextMessageV1(c, text, slots) ==
    IF IsStartCommand(text)
    THEN Do(handleStartV1(sessions, heap, tasks, files, c), <<"text", c, text>>)
    ELSE IF onMessageV1(sessions, heap, c, text)
         THEN /\ Length(text) <= MAX_ANSWER_LENGTH => FreeSlots(tasks, slots) # {}
              /\ Do(handleAnswerV1(sessions, heap, tasks, files, c, text, NewSlot(tasks, slots)),
                    <<"text", c, text>>)
         ELSE Do(Effect(sessions, heap, tasks, files, <<>>), <<"text", c, text>>)

\* callback_query restart
RestartClickV1(c) ==
    /\ c \in ChatIds
    /\ Do(handleRestartV1(sessions, heap, tasks, files, c),
          <<"restart", c, HasSession(sessions, c)>>)

\* callback_query upload_txt: the format of the file is explained
UploadClick(c) ==
    /\ c \in ChatIds
    /\ Do(Effect(sessions, heap, tasks, files, <<Msg(c, "uploadHelp", "ru")>>),
          <<"upload_txt", c>>)

\* a 'document' message: a file that is no .txt is refused, a .txt file goes
\* to handleUploadedFile
DocumentMessage(c, isTxt, downloaded, content, slots) ==
    IF ~isTxt
    THEN Do(Effect(sessions, heap, tasks, files, <<Msg(c, "onlyTxt", "ru")>>),
            <<"document_in", c, <<>>>>)
    ELSE /\ FreeSlots(tasks, slots) # {}
         /\ Do(handleUploadedFile(sessions, heap, tasks, files, c, downloaded, content,
                                  NewSlot(tasks, slots)),
               <<"document_in", c, IF downloaded THEN parseQAFromText(content) ELSE <<>>>>)

\* handleUploadedFile after the 'file received' message: generateAndSendSummary
UploadAnnounced(k) ==
    /\ tasks[k].pc = "uploaded"
    /\ Do(generateAndSendSummary(sessions, heap, tasks, files, tasks[k].chat, k),
          <<"uploaded", tasks[k].chat, k>>)

\* saveResults of this revision after sendDocument resolved: the file stays on disk
DocumentSentV1(k) ==
    /\ tasks[k].pc = "senddoc"
    /\ Do(Effect(sessions, heap, [tasks EXCEPT ![k] = Idle], files,
                 <<Msg(tasks[k].chat, "resultsSaved", "ru")>>),
          <<"document", tasks[k].chat, k>>)

StepUpload(chats, slots, texts, docs, steps) ==
    \/ \E c \in chats, text \in texts : TextMessageV1(c, text, slots)
    \/ \E c \in chats : StartQuestionsClick(c, slots)
    \/ \E c \in chats : SaveClick(c, slots)
    \/ \E c \in chats : RestartClickV1(c)
    \/ \E c \in chats : UploadClick(c)
    \/ \E c \in chats, isTxt \in BOOLEAN, downloaded \in BOOLEAN, content \in docs :
          DocumentMessage(c, isTxt, downloaded, content, slots)
    \/ \E k \in TaskIds : UploadAnnounced(k)
    \/ \E k \in TaskIds : DelayElapsed(k)
    \/ \E k \in TaskIds : NoticeSent(k)
    \/ \E k \in TaskIds, outcome \in AiOutcomes : SummaryReady(k, outcome)
    \/ \E k \in TaskIds : DocumentSentV1(k)
    \/ Sweep
    \/ \E d \in steps : Advance(d)

InitUpload == Boot("upload")
NextUpload == StepUpload({1}, {1}, Texts, Documents, AdvanceSteps)
SpecUpload == InitUpload /\ [][NextUpload]_vars

\* The clock with the interval timer of the constructor: the timer was set at
\* minute 0 and fires at every multiple of the interval.

\* the minute of the first run of the timer after minute t
NextSweep(t) == ((t \div SWEEP_INTERVAL) + 1) * SWEEP_INTERVAL

\* the timer fires: the clock reaches the minute of the run and
\* cleanupStaleSessions runs
TimerFires ==
    /\ cleanupInterval
    /\ process # "exited"
    /\ NextSweep(now) <= MaxClock
    /\ LET swept == cleanupStaleSessions(sessions, heap, NextSweep(now))
       IN  /\ sessions' = swept
           /\ heap' = Collect(heap, swept, tasks)
           /\ last' = <<"sweep", 0, {c \in ChatIds : swept[c] # sessions[c]}>>
    /\ now' = NextSweep(now)
    /\ sent' = <<>>
    /\ UNCHANGED <<tasks, files, revision, cleanupInterval, process>>

\* d minutes pass and the timer does not fire
TimePasses(d) ==
    /\ now + d < NextSweep(now)
    /\ now + d <= MaxClock
    /\ now' = now + d
    /\ sent' = <<>>
    /\ last' = <<"advance", 0>>
    /\ UNCHANGED <<sessions, heap, tasks, files, revision, cleanupInterval, process>>

\* the events of conversations `chats` with the timer running
StepTimer(chats, slots, langs, texts, steps) ==
    \/ \E c \in chats, text \in texts : TextMessage(c, text, slots)
    \/ \E c \in chats, lang \in langs : LanguageClick(c, lang)
    \/ \E c \in chats, chainId \in RoutedChains : ChainClick(c, chainId)
    \/ \E c \in chats : StartQuestionsClick(c, slots)
    \/ \E c \in chats : SaveClick(c, slots)
    \/ \E c \in chats : RestartClick(c)
    \/ \E k \in TaskIds : DelayElapsed(k)
    \/ \E k \in TaskIds : NoticeSent(k)
    \/ \E k \in TaskIds, outcome \in AiOutcomes : SummaryReady(k, outcome)
    \/ \E k \in TaskIds : DocumentSent(k)
    \/ TimerFires
    \/ \E d \in steps : TimePasses(d)

\* one conversation; events arrive at the minute the timer fires or nine
\* minutes later
NextTimer ==
    StepTimer({1}, {1}, {"uk"}, {Text(1, "b3998", 1), Text(0, "b4000", 1)}, {9})
SpecTimer == Init /\ [][NextTimer]_vars

\* One user who goes through the survey once: /start, a language, a chain,
\* the start button, then a valid answer after every question prompt.

\* the texts this user answers with: 4000 characters with blanks around 3998,
\* two blanks, and 4000 characters without blanks
RunTexts == {Text(1, "b3998", 1), Text(2, "", 0), Text(0, "b4000", 0)}

\* the last step sent one question prompt and nothing else
Prompted == Len(sent) = 1 /\ sent[1][1] = "msg" /\ sent[1][3] = "question"

RunStart ==
    /\ last = <<"init">>
    /\ TextMessage(1, Text(0, "/start", 0), {1})

RunLanguage(lang) ==
    /\ last = <<"text", 1, Text(0, "/start", 0)>>
    /\ LanguageClick(1, lang)

RunChain(chainId) ==
    /\ last[1] = "lang"
    /\ ChainClick(1, chainId)

RunStartQuestions ==
    /\ last[1] = "chain"
    /\ StartQuestionsClick(1, {1})

RunAnswer(text) ==
    /\ last[1] \in {"start_questions", "delay"}
    /\ Prompted
    /\ TextMessage(1, text, {1})

NextRun ==
    \/ RunStart
    \/ \E lang \in Langs : RunLanguage(lang)
    \/ \E chainId \in RoutedChains : RunChain(chainId)
    \/ RunStartQuestions
    \/ \E text \in RunTexts : RunAnswer(text)
    \/ DelayElapsed(1)
    \/ NoticeSent(1)
    \/ \E outcome \in AiOutcomes : SummaryReady(1, outcome)

\* the user keeps going and the suspended handlers resume
FairRun == Init /\ [][NextRun]_vars /\ WF_vars(NextRun)

\* Two conversations, each with one handler suspended at a time (conversation
\* c uses handler slot c).  Both users take the one-question chain, answer
\* with a valid text and restart, the first also exports; the summarization
\* returns a text; the clock jumps from minute 0 past the timeout.
NextTwo ==
    \/ \E c \in ChatIds : TextMessage(c, Text(1, "b3998", 1), {c})
    \/ \E c \in ChatIds : ChainClick(c, 2)
    \/ \E c \in ChatIds : StartQuestionsClick(c, {c})
    \/ SaveClick(1, {1})
    \/ \E c \in ChatIds : RestartClick(c)
    \/ \E k \in TaskIds : DelayElapsed(k)
    \/ \E k \in TaskIds : NoticeSent(k)
    \/ \E k \in TaskIds : SummaryReady(k, "text")
    \/ \E k \in TaskIds : DocumentSent(k)
    \/ Sweep
    \/ Advance(31)
SpecTwo == Init /\ [][NextTwo]_vars

\* Two conversations, conversation c using handler slot c: both take the
\* one-question chain and answer with a valid text, the first exports, the
\* second restarts; the sweep timer ticks before and after the clock has
\* jumped past the timeout.
NextServe ==
    \/ \E c \in ChatIds : TextMessage(c, Text(1, "b3998", 1), {c})
    \/ \E c \in ChatIds : ChainClick(c, 2)
    \/ SaveClick(1, {1})
    \/ RestartClick(2)
    \/ \E k \in TaskIds : DelayElapsed(k)
    \/ \E k \in TaskIds : NoticeSent(k)
    \/ \E k \in TaskIds : SummaryReady(k, "text")
    \/ \E k \in TaskIds : DocumentSent(k)
    \/ Sweep
    \/ Advance(31)
SpecServe == Init /\ [][NextServe]_vars

\* process.on('SIGINT' | 'SIGTERM', shutdown): shutdown() up to the await of
\* stopPolling
ShutdownSignal ==
    /\ process \in {"running", "stopping"}
    /\ process' = "stopping"
    /\ sent' = <<>>
    /\ last' = <<"signal", 0>>
    /\ UNCHANGED <<sessions, heap, tasks, files, now, revision, cleanupInterval>>

\* shutdown() after stopPolling settled: cleanup() unless it rejected, then
\* process.exit(0)
PollingStopped(stopped) ==
    /\ process = "stopping"
    /\ LET after == IF stopped THEN cleanup(sessions, cleanupInterval)
                    ELSE [s |-> sessions, cleanupInterval |-> cleanupInterval]
       IN  /\ sessions' = after.s
           /\ cleanupInterval' = after.cleanupInterval
           /\ heap' = Collect(heap, after.s, tasks)
    /\ process' = "exited"
    /\ sent' = <<>>
    /\ last' = <<"shutdown", 0, stopped>>
    /\ UNCHANGED <<tasks, files, now, revision>>

\* one conversation, every input, and the shutdown of the process
NextShutdown ==
    \/ Next
    \/ ShutdownSignal
    \/ \E stopped \in BOOLEAN : PollingStopped(stopped)
SpecShutdown == Init /\ [][NextShutdown]_vars

\* A /start whose language menu is not delivered: handleStart awaits
\* botService.bot.sendMessage directly and the onText callback neither awaits
\* nor catches the promise handleStart returns, so the rejection is left
\* unhandled; the runtime then either only warns or terminates the process.
StartSendFails(c) ==
    /\ process # "exited"
    /\ process' \in {process, "exited"}
    /\ sent' = <<>>
    /\ last' = <<"send_failed", c, "handleStart", "unhandled">>
    /\ UNCHANGED <<sessions, heap, tasks, files, now, revision, cleanupInterval>>

\* A language click whose lesson menu is not delivered: startSession has run,
\* the rejection of botService.bot.sendMessage leaves handleLanguageSelect and
\* is caught and logged by the try/catch of the callback_query listener.
LanguageSendFails(c, lang) ==
    /\ process # "exited"
    /\ LET st == startSession(sessions, heap, tasks, c, lang, 1)
       IN  /\ sessions' = st.s
           /\ heap' = Collect(st.h, st.s, tasks)
    /\ sent' = <<>>
    /\ last' = <<"send_failed", c, "handleLanguageSelect", "caught">>
    /\ UNCHANGED <<tasks, files, now, revision, cleanupInterval, process>>

\* one conversation, every input, with sends of the unwrapped transport failing
NextFail ==
    \/ Next
    \/ StartSendFails(1)
    \/ \E lang \in Langs : LanguageSendFails(1, lang)
SpecFail == Init /\ [][NextFail]_vars

\* generateAndSendSummary send by send.  botService.sendMessage and sendTyping
\* resolve whether or not the API call succeeded (`delivered`), so the handler
\* goes on to its next statement in both cases.

\* after the analyzing notice settled: typing indicator, then the call of
\* generateSummary(session.answers, session.lang, session.chain)
NoticeSettled(k, delivered) ==
    /\ tasks[k].pc = "notice"
    /\ LET c == tasks[k].chat
           session == heap[tasks[k].obj]
       IN  Do(Effect(sessions, heap,
                     Suspend(tasks, k, "ai", c, tasks[k].obj, session.lang, session.chain),
                     files,
                     <<<<"typing", c>>,
                       <<"generateSummary", c, session.answers, session.lang, session.chain>>>>),
              <<"notice", c, k, delivered>>)

\* after generateSummary resolved: session.summary = summary, then the
\* summary message is sent
SummaryStored(k, outcome) ==
    /\ tasks[k].pc = "ai"
    /\ LET c == tasks[k].chat
           ref == tasks[k].obj
           summary == generateSummary(outcome, tasks[k].lang, tasks[k].chain)
           h == [heap EXCEPT ![ref] = [@ EXCEPT !.summary = summary]]
       IN  Do(Effect(sessions, h,
                     Suspend(tasks, k, "deep", c, 0, h[ref].lang, h[ref].chain),
                     files,
                     <<Msg(c, "deepAnalysis", summary)>>),
              <<"stored", c, k>>)

\* the handler ending at the summary message when that send failed
DeepSettled_StopOnFailure(k, delivered) ==
    /\ tasks[k].pc = "deep"
    /\ LET c == tasks[k].chat
       IN  Do(Effect(sessions, heap,
                     IF delivered
                     THEN Suspend(tasks, k, "congrats", c, 0, tasks[k].lang, tasks[k].chain)
                     ELSE Release(tasks, k),
                     files,
                     IF delivered
                     THEN <<Msg(c, "congratsMessage", <<tasks[k].lang, tasks[k].chain>>)>>
                     ELSE <<>>),
              <<"deep_settled", c, k, delivered>>)

\* after the summary message settled: the congratulatory message is sent
DeepSettled(k, delivered) ==
    /\ tasks[k].pc = "deep"
    /\ LET c == tasks[k].chat
       IN  Do(Effect(sessions, heap,
                     Suspend(tasks, k, "congrats", c, 0, tasks[k].lang, tasks[k].chain),
                     files,
                     <<Msg(c, "congratsMessage", <<tasks[k].lang, tasks[k].chain>>)>>),
              <<"deep_settled", c, k, delivered>>)

\* after the congratulatory message settled: the menu with the save and
\* restart buttons is sent
CongratsSettled(k, delivered) ==
    /\ tasks[k].pc = "congrats"
    /\ LET c == tasks[k].chat
       IN  Do(Effect(sessions, heap,
                     Suspend(tasks, k, "prompt", c, 0, tasks[k].lang, tasks[k].chain),
                     files,
                     <<Msg(c, "saveMenu", tasks[k].lang)>>),
              <<"congrats_settled", c, k, delivered>>)

\* after the send of the menu settled: generateAndSendSummary returns, or
\* throws what bot.sendMessage threw
PromptSettled(k, delivered) ==
    /\ tasks[k].pc = "prompt"
    /\ Do(Effect(sessions, heap, Release(tasks, k), files, <<>>),
          <<"prompt_settled", tasks[k].chat, k, delivered>>)

\* one Ukrainian conversation whose summary is sent message by message over a
\* transport that may fail
NextSummary ==
    \/ \E text \in {Text(1, "b3998", 1), Text(0, "/start", 0)} : TextMessage(1, text, {1})
    \/ LanguageClick(1, "uk")
    \/ \E chainId \in RoutedChains : ChainClick(1, chainId)
    \/ StartQuestionsClick(1, {1})
    \/ SaveClick(1, {1})
    \/ RestartClick(1)
    \/ \E k \in TaskIds : DelayElapsed(k)
    \/ \E k \in TaskIds, delivered \in BOOLEAN : NoticeSettled(k, delivered)
    \/ \E k \in TaskIds, outcome \in AiOutcomes : SummaryStored(k, outcome)
    \/ \E k \in TaskIds, delivered \in BOOLEAN : DeepSettled(k, delivered)
    \/ \E k \in TaskIds, delivered \in BOOLEAN : CongratsSettled(k, delivered)
    \/ \E k \in TaskIds, delivered \in BOOLEAN : PromptSettled(k, delivered)
    \/ \E k \in TaskIds : DocumentSent(k)
    \/ Sweep
    \/ Advance(31)
SpecSummary == Init /\ [][NextSummary]_vars

\* one conversation with up to two of its handlers suspended at the same
\* time: a second event is handled while the handler of the first is waiting
NextBurst ==
    \/ TextMessage(1, Text(1, "b3998", 1), {1, 2})
    \/ \E chainId \in RoutedChains : ChainClick(1, chainId)
    \/ StartQuestionsClick(1, {1, 2})
    \/ RestartClick(1)
    \/ \E k \in TaskIds : DelayElapsed(k)
    \/ \E k \in TaskIds : NoticeSent(k)
    \/ \E k \in TaskIds : SummaryReady(k, "text")
    \/ Sweep
    \/ Advance(31)
SpecBurst == Init /\ [][NextBurst]_vars

\* a click on the lesson button start_chain_<chainId> of the menu: the switch
\* of the callback_query listener has cases for start_chain_1 and
\* start_chain_2; any other data falls through it after answerCallbackQuery
LessonButtonClick(c, chainId) ==
    IF chainId \in RoutedChains
    THEN ChainClick(c, chainId)
    ELSE Do(Effect(sessions, heap, tasks, files, <<>>),
            <<"unrouted", c, <<"start_chain", chainId>>>>)

\* one conversation, every input, and every lesson button of the menu
NextMenu ==
    \/ Next
    \/ \E chainId \in OfferedChains : LessonButtonClick(1, chainId)
SpecMenu == Init /\ [][NextMenu]_vars

\* a second conversation that only selects a language, next to the first;
\* the clock passes through minutes 10, 20, 21, 30 and 31
NextPair ==
    \/ Step({1}, {1}, {"uk"}, {Text(1, "b3998", 1), Text(0, "b4000", 1), Text(0, "/start", 0)},
            {10, 21})
    \/ LanguageClick(2, "uk")
SpecPair == Init /\ [][NextPair]_vars

\* either revision of the program
InitAny == \E rev \in {"chains", "upload"} : Boot(rev)
NextAny ==
    \/ revision = "chains" /\ Next
    \/ revision = "upload" /\ NextUpload
SpecAny == InitAny /\ [][NextAny]_vars

\* Suspended handlers resume: the delay timer fires, the sends settle (the
\* transport wrapper catches their failures) and the summarization request
\* settles within its 120 s timeout.
Resume ==
    \/ \E k \in TaskIds : DelayElapsed(k)
    \/ \E k \in TaskIds : NoticeSent(k)
    \/ \E k \in TaskIds, outcome \in AiOutcomes : SummaryReady(k, outcome)
    \/ \E k \in TaskIds : DocumentSent(k)

\* one conversation that uses one language and sends a valid text, an
\* over-long text or /start
NextFair ==
    Step({1}, {1}, {"uk"}, {Text(1, "b3998", 1), Text(0, "b4000", 1), Text(0, "/start", 0)},
         AdvanceSteps)

FairSpec == Init /\ [][NextFair]_vars /\ WF_vars(Resume)

----------------------------------------------------------------------------
(* Derived state of a conversation *)

Session(c) == heap[sessions[c]]
QuestionTotal(c) == Len(getSessionQuestions(sessions, heap, c))
Answering(c) == HasSession(sessions, c) /\ Session(c).currentIndex < QuestionTotal(c)
TooLong(text) == Length(text) > MAX_ANSWER_LENGTH
InFlight(c) == \E k \in TaskIds : tasks[k].pc # "idle" /\ tasks[k].chat = c

\* the step being taken is the text message `text` of conversation c
TextStep(c, text) == last' = <<"text", c, text>>

\* the step being taken rejects `text` as an over-long answer of conversation c
RejectStep(c, text) ==
    /\ TextStep(c, text)
    /\ onMessage(sessions, heap, c, text)
    /\ TooLong(text)

\* the question phase is complete and no summary is stored
Summarizing(c) ==
    /\ HasSession(sessions, c)
    /\ Session(c).currentIndex = QuestionTotal(c)
    /\ Session(c).summary = Null

----------------------------------------------------------------------------
(* C1 *)

\* C1: in every reachable state of either revision, every stored session has
\* as many answers as its cursor says.
C1_AnswersMatchCursor ==
    \A c \in ChatIds :
        HasSession(sessions, c) => Len(Session(c).answers) = Session(c).currentIndex

\* a transcript with three pairs was imported
C1_Witness ==
    /\ revision = "upload"
    /\ last[1] = "document_in"
    /\ HasSession(sessions, 1)
    /\ Session(1).currentIndex = 3
    /\ Len(Session(1).answers) = 3

----------------------------------------------------------------------------
(* C2 *)

\* C2: in every reachable state every session's cursor lies between 0 and the
\* number of questions of the session's current language and chain.
C2_CursorInRange ==
    \A c \in ChatIds :
        HasSession(sessions, c) =>
            /\ Session(c).currentIndex >= 0
            /\ Session(c).currentIndex <= QuestionTotal(c)

\* the last answer of a two-question chain was accepted: the cursor is at the end
C2_Witness ==
    /\ HasSession(sessions, 1)
    /\ Session(1).chain = 1
    /\ Session(1).currentIndex = 2
    /\ last = <<"text", 1, Text(1, "b3998", 1)>>

----------------------------------------------------------------------------
(* C3 *)

\* C3: startSession(id, lang, chain) followed by getSession(id) yields a session
\* with cursor 0, no answers, no summary and the given language and chain,
\* whatever session the id had before; the other ids keep their entries, and a
\* session object that a suspended handler still holds is left as it was.
C3_StartThenGet ==
    /\ \A c \in ChatIds, lang \in Langs, chain \in RoutedChains :
          LET st == startSession(sessions, heap, tasks, c, lang, chain)
          IN  /\ HasSession(st.s, c)
              /\ getSession(st.s, st.h, c) = NewSession(lang, chain, now)
              /\ \A d \in ChatIds \ {c} : st.s[d] = sessions[d]
              /\ \A k \in TaskIds :
                    tasks[k].obj # 0 =>
                        /\ st.s[c] # tasks[k].obj
                        /\ st.h[tasks[k].obj] = heap[tasks[k].obj]
    /\ \A c \in ChatIds, lang \in Langs :
          last = <<"lang", c, lang>> =>
              /\ HasSession(sessions, c)
              /\ Session(c) = NewSession(lang, 1, now)

\* a language click replaced a session while a handler still holds the old
\* object with its answers
C3_Witness ==
    /\ last = <<"lang", 1, "uk">>
    /\ tasks[1].pc = "notice"
    /\ tasks[1].obj # sessions[1]
    /\ Len(heap[tasks[1].obj].answers) = 2
    /\ Session(1).answers = <<>>

----------------------------------------------------------------------------
(* C4 *)

\* C4: clearSession is idempotent: clearing twice gives the store that clearing
\* once gives, clearing an id without a session leaves the store as it is, and
\* after a restart, on a session or on none, the id has no entry.
C4_ClearIdempotent ==
    /\ \A c \in ChatIds :
          /\ clearSession(clearSession(sessions, c), c) = clearSession(sessions, c)
          /\ ~HasSession(clearSession(sessions, c), c)
          /\ ~HasSession(sessions, c) => clearSession(sessions, c) = sessions
    /\ \A c \in ChatIds, had \in BOOLEAN :
          last = <<"restart", c, had>> => ~HasSession(sessions, c)

\* a restart was handled for an id that had no session
C4_Witness ==
    /\ last = <<"restart", 1, FALSE>>
    /\ ~HasSession(sessions, 1)

----------------------------------------------------------------------------
(* C5 *)

\* C5: a text of more than 4000 characters submitted in Answering does not
\* advance the cursor, appends nothing to answers, starts no handler that
\* would send the next question or summarize, and sends only the notice that
\* the answer is too long.
C5_RejectKeepsProgress ==
    [][\A c \in ChatIds, text \in Texts :
          RejectStep(c, text) =>
              /\ sessions' = sessions
              /\ heap'[sessions[c]].currentIndex = Session(c).currentIndex
              /\ heap'[sessions[c]].answers = Session(c).answers
              /\ tasks' = tasks
              /\ sent' = <<Msg(c, "answerTooLong", Session(c).lang)>>]_vars

\* a text of 4001 characters was rejected at the second question
C5_Witness ==
    /\ last = <<"text", 1, Text(0, "b4000", 1)>>
    /\ HasSession(sessions, 1)
    /\ Session(1).currentIndex = 1
    /\ Len(Session(1).answers) = 1
    /\ sent = <<Msg(1, "answerTooLong", Session(1).lang)>>

----------------------------------------------------------------------------
(* C6 *)

\* C6 as stated: rejecting an over-long answer leaves every field of the
\* session, lastActivity included, as it was.
C6_RejectChangesNothing ==
    [][\A c \in ChatIds, text \in Texts :
          RejectStep(c, text) => heap'[sessions[c]] = Session(c)]_vars

\* C6 as amended: rejecting an over-long answer leaves language, chain, cursor,
\* answers and summary as they were and sets lastActivity to the current time.
C6_RejectOnlyTouches ==
    [][\A c \in ChatIds, text \in Texts :
          RejectStep(c, text) =>
              /\ sessions' = sessions
              /\ heap'[sessions[c]] = [Session(c) EXCEPT !.lastActivity = now]]_vars

\* an over-long text was rejected ten minutes or more after the session was made
C6_Witness ==
    /\ last = <<"text", 1, Text(0, "b4000", 1)>>
    /\ sent = <<Msg(1, "answerTooLong", "uk")>>
    /\ HasSession(sessions, 1)
    /\ now > 0
    /\ Session(1).lastActivity = now

----------------------------------------------------------------------------
(* C7 *)

----------------------------------------------------------------------------
(* C8 *)

\* C8: a restart removes the id's entry, and the data of the removed session
\* never comes back through the store: an object that enters the store is a
\* new one with cursor 0, no answers and no summary, it is never an object a
\* suspended handler holds, and a handler that resumes on an object that is
\* no longer stored changes nothing the store shows.
C8_RestartForgets ==
    [][\A c \in ChatIds :
          /\ (\E had \in BOOLEAN : last' = <<"restart", c, had>>) => ~HasSession(sessions', c)
          /\ (HasSession(sessions', c) /\ sessions'[c] # sessions[c]) =>
                /\ heap'[sessions'[c]].currentIndex = 0
                /\ heap'[sessions'[c]].answers = <<>>
                /\ heap'[sessions'[c]].summary = Null
                /\ \A k \in TaskIds : tasks[k].obj # sessions'[c]
          /\ \A k \in TaskIds :
                (last' \in {<<"summary", c, k>>, <<"notice", c, k>>}
                   /\ tasks[k].obj # sessions[c]) =>
                    /\ sessions' = sessions
                    /\ HasSession(sessions, c) => heap'[sessions[c]] = Session(c)]_vars

\* the summary of a restarted attempt arrived after a new session was made:
\* the new session shows none of it
C8_Witness ==
    /\ last = <<"summary", 1, 1>>
    /\ HasSession(sessions, 1)
    /\ Session(1).summary = Null
    /\ Session(1).answers = <<>>

----------------------------------------------------------------------------
(* C9 *)

\* C9: an export request for an id without a session sends no file, writes no
\* file, sends exactly one 'no data to save' message and leaves the store as
\* it is.
C9_ExportWithoutSession ==
    [][\A c \in ChatIds :
          (last' = <<"save_results", c>> /\ ~HasSession(sessions, c)) =>
              /\ sent' = <<Msg(c, "noDataToSave", "ru")>>
              /\ files' = files
              /\ sessions' = sessions
              /\ heap' = heap
              /\ tasks' = tasks]_vars

\* an export was requested for an id without a session
C9_Witness ==
    /\ last = <<"save_results", 1>>
    /\ ~HasSession(sessions, 1)
    /\ sent = <<Msg(1, "noDataToSave", "ru")>>

----------------------------------------------------------------------------
(* C10 *)

\* C10: an export of an existing session changes no field of any session and
\* sends one file holding the rendering of the stored answers and summary;
\* the completion of the send changes no session either, so that a repeated
\* export renders the same answers and summary.
C10_ExportKeepsSessions ==
    [][\A c \in ChatIds :
          /\ (last' = <<"save_results", c>> /\ HasSession(sessions, c)) =>
                /\ sessions' = sessions
                /\ heap' = heap
                /\ Len(sent') = 1
                /\ sent'[1][1] = "doc"
                /\ sent'[1][2] = c
                /\ sent'[1][4] = Render(Session(c))
                /\ Render(heap'[sessions'[c]]) = Render(Session(c))
          /\ (\E k \in TaskIds : last' = <<"document", c, k>>) =>
                /\ sessions' = sessions
                /\ heap' = heap]_vars

\* a completed session with two answers and a summary was exported
C10_Witness ==
    /\ last = <<"save_results", 1>>
    /\ HasSession(sessions, 1)
    /\ Len(Session(1).answers) = 2
    /\ Session(1).summary = <<"ai">>
    /\ Len(sent) = 1
    /\ sent[1][4] = Render(Session(1))

----------------------------------------------------------------------------
(* C11 *)

\* the idle time of the session of c
IdleTime(c) == now - Session(c).lastActivity

\* C11: a sweep removes every session idle for more than the timeout and no
\* other: a session idle for the timeout or less keeps its entry and all its
\* fields, an id without a session gets none, and nothing is sent.
C11_SweepRemovesExactlyStale ==
    [][last'[1] = "sweep" =>
          /\ \A c \in ChatIds :
                IF HasSession(sessions, c) /\ IdleTime(c) > SESSION_TIMEOUT_MS
                THEN ~HasSession(sessions', c)
                ELSE /\ sessions'[c] = sessions[c]
                     /\ HasSession(sessions, c) => heap'[sessions[c]] = Session(c)
          /\ sent' = <<>>
          /\ now' = now]_vars

\* a sweep at minute 31 removed the session of conversation 1, idle for 31
\* minutes, and kept the one of conversation 2, idle for 10
C11_Witness ==
    /\ last = <<"sweep", 0, {1}>>
    /\ now = 31
    /\ ~HasSession(sessions, 1)
    /\ HasSession(sessions, 2)
    /\ IdleTime(2) = 10

----------------------------------------------------------------------------
(* C12 *)

\* C12: with the sweep timer firing every 10 minutes, no session in the store
\* has been idle for more than timeout + sweep interval = 40 minutes.
C12_StalenessBounded ==
    \A c \in ChatIds :
        HasSession(sessions, c) => IdleTime(c) <= SESSION_TIMEOUT_MS + SWEEP_INTERVAL

\* a session idle for 39 minutes is still stored: the run of the timer at
\* minute 30 found it idle for 30 minutes and kept it
C12_Witness ==
    /\ HasSession(sessions, 1)
    /\ now = 39
    /\ IdleTime(1) = 39

----------------------------------------------------------------------------
(* C13 *)

\* the step being taken assigns the result of generateSummary to the stored
\* session of c
SummaryStep(c) ==
    \E k \in TaskIds : last' = <<"summary", c, k>> /\ tasks[k].obj = sessions[c]

\* C13: the summary of a session is assigned at most once while the session
\* lives: as long as the id keeps its session object, a summary that is set is
\* neither assigned again nor reset.
C13_SummarySetOnce ==
    [][\A c \in ChatIds :
          (HasSession(sessions, c) /\ sessions'[c] = sessions[c]
             /\ Session(c).summary # Null) =>
              /\ ~SummaryStep(c)
              /\ heap'[sessions[c]].summary = Session(c).summary]_vars

----------------------------------------------------------------------------
(* C14 *)

\* C14: in every reachable state a session has a summary only if its cursor
\* is at the end of its question list.
C14_SummaryOnlyWhenComplete ==
    \A c \in ChatIds :
        (HasSession(sessions, c) /\ Session(c).summary # Null) =>
            Session(c).currentIndex = QuestionTotal(c)

----------------------------------------------------------------------------
(* C15 *)

\* the step being taken accepts `text` as an answer of conversation c
AcceptStep(c, text) ==
    /\ TextStep(c, text)
    /\ onMessage(sessions, heap, c, text)
    /\ ~TooLong(text)

\* C15: an accepted answer is stored with the question at the cursor of the
\* list of the session's language and chain at that moment, and in every
\* reachable state answer i of a session is labelled with question i of the
\* list of the session's current language and chain.
C15_AnswersLabelled ==
    /\ [](\A c \in ChatIds :
            HasSession(sessions, c) =>
                \A i \in 1..Len(Session(c).answers) :
                    Session(c).answers[i].question =
                        QuestionAt(getChainConfig(Session(c).lang, Session(c).chain), i - 1))
    /\ [][\A c \in ChatIds, text \in Texts :
            AcceptStep(c, text) =>
                heap'[sessions[c]].answers =
                    Append(Session(c).answers,
                           [question |-> QuestionAt(getSessionQuestions(sessions, heap, c),
                                                    Session(c).currentIndex),
                            answer |-> Trim(text)])]_vars

\* the only question of chain 2 was answered in a Ukrainian session, after
\* minute 0
C15_Witness ==
    /\ last = <<"text", 1, Text(1, "b3998", 1)>>
    /\ HasSession(sessions, 1)
    /\ Session(1).lastActivity > 0
    /\ Session(1).answers =
          <<[question |-> <<"uk", 2, 1>>, answer |-> Text(0, "b3998", 0)]>>

----------------------------------------------------------------------------
(* C16 *)

\* the step being taken is an accepted event of conversation c other than a
\* language selection or a restart: an accepted answer, a chain selection, a
\* start-questions click or an export request
TouchingStep(c) ==
    \/ \E text \in Texts : AcceptStep(c, text)
    \/ \E chainId \in RoutedChains : last' = <<"chain", c, chainId>>
    \/ last' = <<"start_questions", c>>
    \/ last' = <<"save_results", c>>

\* C16: every accepted event for an id that has a session sets the session's
\* lastActivity to the current time.
C16_EventsTouch ==
    [][\A c \in ChatIds :
          (HasSession(sessions, c) /\ TouchingStep(c)) =>
              /\ HasSession(sessions', c)
              /\ heap'[sessions'[c]].lastActivity = now]_vars

----------------------------------------------------------------------------
(* C17 *)

\* C17: a text that is no command, arriving for an id without a session, is
\* answered with the notice that the session has expired.
C17_NoSessionNotified ==
    [][\A c \in ChatIds, text \in Texts :
          (TextStep(c, text) /\ ~StartsWithSlash(text) /\ ~HasSession(sessions, c)) =>
              sent' = <<Msg(c, "expired", "ru")>>]_vars

----------------------------------------------------------------------------
(* C18 *)

\* C18: an answer, a start-questions click, a chain selection or an export
\* request for an id without a session leaves the id without a session.
C18_NoSessionNoMutation ==
    [][\A c \in ChatIds :
          (~HasSession(sessions, c)
             /\ \/ \E text \in Texts : TextStep(c, text) /\ ~StartsWithSlash(text)
                \/ \E chainId \in RoutedChains : last' = <<"chain", c, chainId>>
                \/ last' = <<"start_questions", c>>
                \/ last' = <<"save_results", c>>) =>
              ~HasSession(sessions', c)]_vars

----------------------------------------------------------------------------
(* C19 *)

\* C19: generateSummary never throws; without an API key it issues no request
\* and returns the fallback of the language and chain; when the request
\* fails, times out or brings a malformed body it returns that fallback; when
\* the request succeeds it returns the text of the response; and every
\* summary stored in a session is such a value.
C19_SummaryAlwaysResolves ==
    /\ \A hasKey \in BOOLEAN, http \in HttpResults, lang \in Langs, chain \in RoutedChains :
          LET run == generateSummaryRun(hasKey, http, lang, chain)
          IN  /\ ~run.threw
              /\ ~hasKey => run.requests = 0 /\ run.value = <<"fallback", lang, chain>>
              /\ (hasKey /\ http \notin {"content", "blank"}) =>
                    run.value = <<"fallback", lang, chain>>
              /\ (hasKey /\ http \in {"content", "blank"}) =>
                    run.requests = 1 /\ run.value \in {<<"ai">>, <<"empty">>}
    /\ \A c \in ChatIds :
          (HasSession(sessions, c) /\ Session(c).summary # Null) =>
              \E hasKey \in BOOLEAN, http \in HttpResults, lang \in Langs,
                 chain \in RoutedChains :
                  Session(c).summary = generateSummaryRun(hasKey, http, lang, chain).value

\* a response with blank content was stored as the summary of a session
C19_Witness ==
    /\ last = <<"summary", 1, 1>>
    /\ HasSession(sessions, 1)
    /\ Session(1).summary = <<"empty">>

----------------------------------------------------------------------------
(* C20 *)

\* the question phase is complete and a summary is stored
Completed(c) ==
    /\ HasSession(sessions, c)
    /\ Session(c).currentIndex = QuestionTotal(c)
    /\ Session(c).summary # Null

\* the prompt of the question at zero-based index i of the session of c
Prompt(c, i) ==
    Msg(c, "question",
        <<i + 1, QuestionTotal(c), QuestionAt(getSessionQuestions(sessions, heap, c), i)>>)

\* C20: in the run of one user who starts, selects a language and a chain,
\* starts the questions and answers every prompt with a valid text: the start
\* button sends the prompt of question 0; every answer is stored as
\* (question at the cursor, trimmed text) and moves the cursor by one; the
\* continuation after the answer sends the prompt of the question at the new
\* cursor and no other, or, at the end of the list, starts the
\* summarization; after a prompt only the next answer follows, so that each of
\* the N questions is prompted once, in order; generateSummary is called once,
\* with the N answers, and nothing happens after its result is stored; and
\* the run reaches Completed with N answers labelled by questions 0..N-1.
C20_FullRun ==
    /\ [][/\ last' = <<"start_questions", 1>> =>
                /\ Session(1).currentIndex = 0
                /\ sessions' = sessions /\ heap' = heap
                /\ sent' = <<Prompt(1, 0)>>
          /\ \A text \in RunTexts :
                last' = <<"text", 1, text>> =>
                    /\ Prompted
                    /\ sent[1] = Prompt(1, Session(1).currentIndex)
                    /\ sessions' = sessions
                    /\ heap'[sessions[1]].currentIndex = Session(1).currentIndex + 1
                    /\ heap'[sessions[1]].answers =
                          Append(Session(1).answers,
                                 [question |-> QuestionAt(getSessionQuestions(sessions, heap, 1),
                                                          Session(1).currentIndex),
                                  answer |-> Trim(text)])
                    /\ sent' = <<>>
          /\ last' = <<"delay", 1, 1>> =>
                /\ last[1] = "text"
                /\ sessions' = sessions /\ heap' = heap
                /\ IF Session(1).currentIndex < QuestionTotal(1)
                   THEN sent' = <<Prompt(1, Session(1).currentIndex)>>
                   ELSE sent' = <<Msg(1, "analyzing", Session(1).lang)>>
          /\ Prompted => last'[1] = "text"
          /\ last' = <<"notice", 1, 1>> =>
                /\ last = <<"delay", 1, 1>>
                /\ Summarizing(1)
                /\ Len(Session(1).answers) = QuestionTotal(1)
                /\ sent' = <<<<"typing", 1>>,
                             <<"generateSummary", 1, Session(1).answers,
                               Session(1).lang, Session(1).chain>>>>
          /\ last' = <<"summary", 1, 1>> =>
                /\ last = <<"notice", 1, 1>>
                /\ Summarizing(1)
                /\ Completed(1)'
                /\ heap'[sessions[1]].answers = Session(1).answers
          /\ ~Completed(1)]_vars
    /\ <>(/\ Completed(1)
          /\ Len(Session(1).answers) = QuestionTotal(1)
          /\ \A i \in 1..QuestionTotal(1) :
                /\ Session(1).answers[i].question =
                      <<Session(1).lang, Session(1).chain, i>>
                /\ Session(1).answers[i].answer \in {Trim(text) : text \in RunTexts})

\* the run over the two questions of chain 1 ended: both answers are stored
\* trimmed, in order, and the summary is the text of the service
C20_Witness ==
    /\ last = <<"summary", 1, 1>>
    /\ Completed(1)
    /\ Session(1).summary = <<"ai">>
    /\ Session(1).answers =
          <<[question |-> <<"uk", 1, 1>>, answer |-> Text(0, "b3998", 0)],
            [question |-> <<"uk", 1, 2>>, answer |-> Text(0, "", 0)]>>

----------------------------------------------------------------------------
(* C21 *)

\* the last step rejected an over-long text of conversation c
Rejected(c) ==
    /\ HasSession(sessions, c)
    /\ last[1] = "text" /\ last[2] = c /\ TooLong(last[3])
    /\ sent = <<Msg(c, "answerTooLong", Session(c).lang)>>

\* C21 as stated: the rejection of an over-long answer at cursor i sends the
\* prompt of question i again.
C21_RejectReprompts ==
    [][\A c \in ChatIds, text \in Texts :
          RejectStep(c, text) =>
              \E n \in 1..Len(sent') : sent'[n] = Prompt(c, Session(c).currentIndex)]_vars

\* C21 as amended: the rejection of an over-long answer at cursor i sends the
\* notice that the answer is too long and no question prompt; the session
\* stays in Answering at cursor i with i answers, so that the router hands
\* the next valid text to handleAnswer; and a valid text that follows the
\* rejection is recorded against question i and moves the cursor to i + 1.
C21_RejectThenRetry ==
    [][\A c \in ChatIds, text \in Texts :
          /\ RejectStep(c, text) =>
                /\ sent' = <<Msg(c, "answerTooLong", Session(c).lang)>>
                /\ sessions' = sessions
                /\ heap'[sessions[c]].currentIndex = Session(c).currentIndex
                /\ heap'[sessions[c]].answers = Session(c).answers
                /\ Len(heap'[sessions[c]].answers) = Session(c).currentIndex
                /\ Answering(c)'
                /\ \A retry \in Texts :
                      (~StartsWithSlash(retry) /\ ~TooLong(retry)) =>
                          onMessage(sessions', heap', c, retry)
          /\ (Rejected(c) /\ AcceptStep(c, text)) =>
                /\ sessions' = sessions
                /\ heap'[sessions[c]].currentIndex = Session(c).currentIndex + 1
                /\ heap'[sessions[c]].answers =
                      Append(Session(c).answers,
                             [question |-> QuestionAt(getSessionQuestions(sessions, heap, c),
                                                      Session(c).currentIndex),
                              answer |-> Trim(text)])]_vars

\* a text of 4001 characters was rejected at the second question of a Russian
\* session: one answer is stored and the router still takes answers
C21_Witness ==
    /\ Rejected(1)
    /\ Session(1).lang = "ru"
    /\ Session(1).chain = 1
    /\ Session(1).currentIndex = 1
    /\ Len(Session(1).answers) = 1
    /\ onMessage(sessions, heap, 1, Text(1, "b3998", 1))

----------------------------------------------------------------------------
(* C22 *)

\* C22: an export file exists only while the saveResults call that wrote it
\* is waiting for its sendDocument: once the call has finished, in either
\* revision, the file is gone.
C22_ExportFileTransient ==
    \A file \in files :
        /\ file[2] \in TaskIds
        /\ tasks[file[2]].pc = "senddoc"
        /\ tasks[file[2]].chat = file[1]

----------------------------------------------------------------------------
(* C23 *)

\* the position of the analysis section in the document of a session
AnalysisAt(session) == 4 + 5 * Len(session.answers) + 2

\* C23 as stated: the analysis section of the document holds the fixed
\* 'analysis unavailable' text exactly when the session has no summary.
C23_UnavailableIffAbsent ==
    \A c \in ChatIds :
        HasSession(sessions, c) =>
            (Render(Session(c))[AnalysisAt(Session(c))]
                = <<"analysisUnavailable", Session(c).lang>>
             <=> Session(c).summary = Null)

\* C23 as amended: the document of a session is, in this order, the header,
\* the date line and the time line, the heading of the answers, one block per
\* stored answer in answer order (question label numbered i + 1, question
\* text, answer label, answer text, separator), the heading of the analysis,
\* the stored summary, or the fixed 'analysis unavailable' text when the
\* summary is absent or the empty string, and the closing footer; an export
\* sends this document.
C23_DocumentLayout ==
    \A c \in ChatIds :
        HasSession(sessions, c) =>
            LET session == Session(c)
                doc == Render(session)
                n == Len(session.answers)
            IN  /\ Len(doc) = 4 + 5 * n + 3
                /\ doc[1] = <<"header", session.lang>>
                /\ doc[2] = <<"date", Locale(session.lang)>>
                /\ doc[3] = <<"time", Locale(session.lang)>>
                /\ doc[4] = <<"answers", session.lang>>
                /\ \A i \in 0..(n - 1) :
                      /\ doc[4 + 5 * i + 1] = <<"questionLabel", session.lang, i + 1>>
                      /\ doc[4 + 5 * i + 2] = <<"text", session.answers[i + 1].question>>
                      /\ doc[4 + 5 * i + 3] = <<"answerLabel", session.lang>>
                      /\ doc[4 + 5 * i + 4] = <<"text", session.answers[i + 1].answer>>
                      /\ doc[4 + 5 * i + 5] = <<"separator">>
                /\ doc[4 + 5 * n + 1] = <<"analysisHeader", session.lang>>
                /\ doc[AnalysisAt(session)] =
                      IF session.summary \in {Null, <<"empty">>}
                      THEN <<"analysisUnavailable", session.lang>>
                      ELSE session.summary
                /\ doc[4 + 5 * n + 3] = <<"congratsFooter", session.lang>>
                /\ last = <<"save_results", c>> =>
                      /\ Len(sent) = 1
                      /\ sent[1][1] = "doc"
                      /\ sent[1][4] = doc

\* a session with two answers whose summary is the empty string was
\* exported: the document says that the analysis is unavailable
C23_Witness ==
    /\ last = <<"save_results", 1>>
    /\ HasSession(sessions, 1)
    /\ Len(Session(1).answers) = 2
    /\ Session(1).summary = <<"empty">>
    /\ Len(sent) = 1
    /\ sent[1][4][AnalysisAt(Session(1))] = <<"analysisUnavailable", Session(1).lang>>

----------------------------------------------------------------------------
(* C24 *)

\* the step being taken is an inbound event of conversation c or the
\* continuation of one of its handlers
StepOf(c) == last'[1] \notin {"sweep", "advance"} /\ last'[2] = c

\* C24: a step of conversation a, an event or the continuation of a handler
\* suspended at the delay, the summarization call or the file send, leaves
\* the entry of every other conversation b, every field of b's session and
\* b's suspended handlers with the objects they hold as they were; and the
\* entry of b disappears only by a sweep or by b's own restart.
C24_SessionsIndependent ==
    [][/\ \A a \in ChatIds, b \in ChatIds :
            (a # b /\ StepOf(a)) =>
                /\ sessions'[b] = sessions[b]
                /\ HasSession(sessions, b) => heap'[sessions[b]] = Session(b)
                /\ \A k \in TaskIds :
                      tasks[k].chat = b =>
                          /\ tasks'[k] = tasks[k]
                          /\ tasks[k].obj # 0 => heap'[tasks[k].obj] = heap[tasks[k].obj]
       /\ \A b \in ChatIds :
            (HasSession(sessions, b) /\ ~HasSession(sessions', b)) =>
                \/ last'[1] = "sweep"
                \/ last' = <<"restart", b, TRUE>>]_vars

\* the summary of conversation 1 was stored while the handler of
\* conversation 2 is waiting for its own summarization call
C24_Witness ==
    /\ last = <<"summary", 1, 1>>
    /\ HasSession(sessions, 1)
    /\ Session(1).summary = <<"ai">>
    /\ HasSession(sessions, 2)
    /\ tasks[2].pc = "ai"
    /\ tasks[2].chat = 2
    /\ tasks[2].obj = sessions[2]
    /\ Session(2).summary = Null
    /\ Len(Session(2).answers) = 1

----------------------------------------------------------------------------
(* C25 *)

\* a handler of conversation c is suspended at the pacing delay, at a send,
\* at the summarization call or at the file send
Suspended(c) ==
    \E k \in TaskIds :
        tasks[k].chat = c /\ tasks[k].pc \in {"delay", "notice", "ai", "senddoc"}

\* C25: while a handler of conversation a is suspended, the sweep tick and
\* the button clicks and texts of every other conversation b can be taken at
\* once (those that start a handler of b's own: whenever b has none
\* suspended itself), and when one of them is taken it runs to its first
\* await with a's handler still suspended where it was.
C25_OthersServed ==
    /\ [](\A a \in ChatIds :
            Suspended(a) =>
                /\ ENABLED Sweep
                /\ \A b \in ChatIds \ {a} :
                      /\ ENABLED ChainClick(b, 2)
                      /\ ENABLED RestartClick(b)
                      /\ ENABLED TextMessage(b, Text(0, "/start", 0), {b})
                      /\ ~InFlight(b) =>
                            /\ ENABLED TextMessage(b, Text(1, "b3998", 1), {b})
                            /\ ENABLED StartQuestionsClick(b, {b})
                            /\ ENABLED SaveClick(b, {b}))
    /\ [][\A a \in ChatIds :
            (Suspended(a) /\ (last'[1] = "sweep" \/ \E b \in ChatIds \ {a} : StepOf(b))) =>
                \A k \in TaskIds : tasks[k].chat = a => tasks'[k] = tasks[k]]_vars

\* the answer of conversation 2 was recorded while the handler of
\* conversation 1 is waiting for the summarization call
C25_Witness ==
    /\ last = <<"text", 2, Text(1, "b3998", 1)>>
    /\ HasSession(sessions, 2)
    /\ Len(Session(2).answers) = 1
    /\ tasks[1].pc = "ai"
    /\ tasks[1].chat = 1
    /\ tasks[2].pc = "delay"
    /\ tasks[2].chat = 2

----------------------------------------------------------------------------
(* C26 *)

\* C26: cleanup() called on any state of the handler leaves no timer handle
\* and an empty store, and called again on its own result changes nothing;
\* the shutdown that got as far as cleanup() ends with the store empty and
\* the timer cancelled; once the handle is null it stays null and no sweep
\* runs.
C26_CleanupReleases ==
    /\ [](LET once == cleanup(sessions, cleanupInterval)
              twice == cleanup(once.s, once.cleanupInterval)
          IN  /\ once.cleanupInterval = FALSE
              /\ \A c \in ChatIds : ~HasSession(once.s, c)
              /\ twice = once)
    /\ [][/\ last' = <<"shutdown", 0, TRUE>> =>
                /\ ~cleanupInterval'
                /\ \A c \in ChatIds : ~HasSession(sessions', c)
          /\ ~cleanupInterval =>
                /\ ~cleanupInterval'
                /\ last'[1] # "sweep"]_vars

\* the process was shut down while the store held a session with an answer
\* and a handler was waiting for the summarization call: the store is empty
\* and the timer handle is null
C26_Witness ==
    /\ last = <<"shutdown", 0, TRUE>>
    /\ process = "exited"
    /\ ~cleanupInterval
    /\ \A c \in ChatIds : ~HasSession(sessions, c)
    /\ tasks[1].pc = "ai"
    /\ heap[tasks[1].obj].lang = "uk"

----------------------------------------------------------------------------
(* C27 *)

\* C27: whenever a transport send fails while an inbound event is handled,
\* the failure is caught and the process keeps running.
C27_NoFailureEscapes ==
    last[1] = "send_failed" =>
        /\ last[4] = "caught"
        /\ process # "exited"

----------------------------------------------------------------------------
(* C28 *)

\* C28: after a /start of conversation c the store holds a session for c
\* with cursor 0, no answers and no summary.
C28_StartCreatesSession ==
    [][\A c \in ChatIds, text \in Texts :
          (TextStep(c, text) /\ IsStartCommand(text)) =>
              /\ HasSession(sessions', c)
              /\ heap'[sessions'[c]].currentIndex = 0
              /\ heap'[sessions'[c]].answers = <<>>
              /\ heap'[sessions'[c]].summary = Null]_vars

----------------------------------------------------------------------------
(* C29 *)

\* the step being taken is a language or chain selection of conversation c
SelectStep(c) == last'[1] \in {"lang", "chain"} /\ last'[2] = c

\* C29: a language or chain selection of conversation c leaves c with a
\* session that has the selected language or chain, cursor 0, no answers and
\* no summary, and sends c the first question of the session's chain.
C29_SelectionSendsFirstQuestion ==
    [][\A c \in ChatIds :
          SelectStep(c) =>
              /\ HasSession(sessions', c)
              /\ LET session == heap'[sessions'[c]]
                     questions == getChainConfig(session.lang, session.chain)
                 IN  /\ last'[1] = "lang" => session.lang = last'[3]
                     /\ last'[1] = "chain" => session.chain = last'[3]
                     /\ session.currentIndex = 0
                     /\ session.answers = <<>>
                     /\ session.summary = Null
                     /\ \E i \in 1..Len(sent') :
                           sent'[i] = Msg(c, "question",
                                          <<1, Len(questions), QuestionAt(questions, 0)>>)]_vars

----------------------------------------------------------------------------
(* C30 *)

\* C30: a text that begins with '/' leaves the store, every field of the
\* session of its conversation (cursor, answers and lastActivity among them)
\* and the suspended handlers as they were.
C30_CommandsNotRecorded ==
    [][\A c \in ChatIds, text \in Texts :
          (TextStep(c, text) /\ StartsWithSlash(text)) =>
              /\ sessions' = sessions
              /\ tasks' = tasks
              /\ HasSession(sessions, c) => heap'[sessions[c]] = Session(c)]_vars

\* a command other than /start arrived for a session that is waiting for its
\* second answer and has been idle for a while
C30_Witness ==
    /\ last = <<"text", 1, Text(0, "/help", 0)>>
    /\ Answering(1)
    /\ Len(Session(1).answers) = 1
    /\ Session(1).lastActivity < now
    /\ sent = <<>>

----------------------------------------------------------------------------
(* C31 *)

\* C31: in Answering, a text that is no command and whose length before
\* trimming is at most 4000 (a text of exactly 4000 characters and a blank
\* text among them) is accepted: the answers grow by exactly the one pair of
\* the question at the cursor and the trimmed text, the cursor grows by
\* exactly 1 and the entry stays the same object.
C31_AcceptWithinLimit ==
    [][\A c \in ChatIds, text \in Texts :
          (TextStep(c, text) /\ Answering(c) /\ ~StartsWithSlash(text)
              /\ Length(text) <= 4000) =>
              /\ sessions' = sessions
              /\ heap'[sessions[c]].answers =
                    Session(c).answers \o
                        <<[question |-> QuestionAt(getSessionQuestions(sessions, heap, c),
                                                   Session(c).currentIndex),
                           answer |-> Trim(text)]>>
              /\ Len(heap'[sessions[c]].answers) = Len(Session(c).answers) + 1
              /\ heap'[sessions[c]].currentIndex = Session(c).currentIndex + 1]_vars

\* a blank text was accepted as the second answer, after a first answer of
\* exactly 4000 characters
C31_Witness ==
    /\ last = <<"text", 1, Text(2, "", 0)>>
    /\ HasSession(sessions, 1)
    /\ Session(1).currentIndex = 2
    /\ Len(Session(1).answers) = 2
    /\ Length(Text(1, "b3998", 1)) = 4000
    /\ Session(1).answers[1].answer = Trim(Text(1, "b3998", 1))
    /\ Session(1).answers[2].answer = Text(0, "", 0)

----------------------------------------------------------------------------
(* C32 *)

\* handler k leaves the await it is suspended at
Proceeds(k) == tasks'[k] # tasks[k]

\* C32: the summary generation of a handler k runs in this order, whether or
\* not the send before each step was delivered: the handler is suspended
\* with the analyzing notice as the last thing sent; then it sends the
\* typing indicator and calls generateSummary with the answers, language and
\* chain of its session; then it stores the returned text in the session and
\* sends that text as the summary message; then the congratulatory message;
\* then the menu with the save and restart buttons; then it ends.  None of
\* these messages is sent by any other step.
C32_SummaryOrder ==
    [][\A k \in TaskIds :
          LET c == tasks[k].chat
              ref == tasks[k].obj
          IN  /\ (tasks[k].pc # "notice" /\ tasks'[k].pc = "notice") =>
                    /\ Len(sent') >= 1
                    /\ sent'[Len(sent')] =
                          Msg(tasks'[k].chat, "analyzing", heap'[tasks'[k].obj].lang)
              /\ (tasks[k].pc = "notice" /\ Proceeds(k)) =>
                    /\ last'[1] = "notice"
                    /\ tasks'[k].pc = "ai"
                    /\ tasks'[k].obj = ref
                    /\ sent' = <<<<"typing", c>>,
                                 <<"generateSummary", c, heap[ref].answers,
                                   heap[ref].lang, heap[ref].chain>>>>
              /\ (tasks[k].pc = "ai" /\ Proceeds(k)) =>
                    /\ last' = <<"stored", c, k>>
                    /\ tasks'[k].pc = "deep"
                    /\ Len(sent') = 1
                    /\ sent'[1][3] = "deepAnalysis"
                    /\ sessions[c] = ref =>
                          heap'[ref].summary \in
                              {generateSummary(outcome, tasks[k].lang, tasks[k].chain) :
                                   outcome \in AiOutcomes}
              /\ (tasks[k].pc = "deep" /\ Proceeds(k)) =>
                    /\ last'[1] = "deep_settled"
                    /\ tasks'[k].pc = "congrats"
                    /\ sent' = <<Msg(c, "congratsMessage", <<tasks[k].lang, tasks[k].chain>>)>>
              /\ (tasks[k].pc = "congrats" /\ Proceeds(k)) =>
                    /\ last'[1] = "congrats_settled"
                    /\ tasks'[k].pc = "prompt"
                    /\ sent' = <<Msg(c, "saveMenu", tasks[k].lang)>>
              /\ (tasks[k].pc = "prompt" /\ Proceeds(k)) =>
                    /\ last'[1] = "prompt_settled"
                    /\ tasks'[k].pc = "idle"
                    /\ sent' = <<>>
       /\ \A i \in 1..Len(sent') :
             sent'[i][1] = "msg" =>
                 /\ sent'[i][3] = "deepAnalysis" => last'[1] = "stored"
                 /\ sent'[i][3] = "congratsMessage" => last'[1] = "deep_settled"
                 /\ sent'[i][3] = "saveMenu" => last'[1] = "congrats_settled"]_vars

\* the summary message was not delivered and the congratulatory message was
\* sent all the same, with the summary in the session
C32_Witness ==
    /\ last = <<"deep_settled", 1, 1, FALSE>>
    /\ sent = <<Msg(1, "congratsMessage", <<"uk", 1>>)>>
    /\ tasks[1].pc = "congrats"
    /\ HasSession(sessions, 1)
    /\ Session(1).summary = <<"ai">>
    /\ Len(Session(1).answers) = 2

----------------------------------------------------------------------------
(* C33 *)

\* the step being taken is the upload, by conversation c, of a .txt file in
\* which at least one pair is recognized
ImportStep(c) ==
    /\ last'[1] = "document_in"
    /\ last'[2] = c
    /\ Len(last'[3]) >= 1

\* C33: after the import of a file with at least one recognized pair, the
\* conversation has a session whose cursor is the number of questions, a
\* handler is on its way to the summarization, and the router hands no text
\* of the conversation to handleAnswer.
C33_ImportBypassesAnswering ==
    [][\A c \in ChatIds :
          ImportStep(c) =>
              /\ HasSession(sessions', c)
              /\ heap'[sessions'[c]].currentIndex = Len(getChainConfig("ru", 1))
              /\ \E k \in TaskIds : tasks'[k].pc = "uploaded" /\ tasks'[k].chat = c
              /\ \A text \in Texts : ~onMessageV1(sessions', heap', c, text)]_vars

----------------------------------------------------------------------------
(* C34 *)

\* C34: an upload of conversation c in which no pair is recognized (the file
\* has none, it could not be downloaded, or it is no .txt file) sends c
\* exactly one message, an error message, and leaves the store, every
\* session object and the suspended handlers as they were: no session is
\* created, an existing one is kept, no summarization is started.
C34_EmptyImportRejected ==
    [][\A c \in ChatIds :
          (last'[1] = "document_in" /\ last'[2] = c /\ last'[3] = <<>>) =>
              /\ Len(sent') = 1
              /\ sent'[1] \in {Msg(c, "noAnswersInFile", "ru"), Msg(c, "uploadError", "ru"),
                               Msg(c, "onlyTxt", "ru")}
              /\ sessions' = sessions
              /\ heap' = heap
              /\ tasks' = tasks]_vars

\* a file without any pair was uploaded while the conversation had a session
\* with one answer: the error message was sent and the session is still there
C34_Witness ==
    /\ revision = "upload"
    /\ last = <<"document_in", 1, <<>>>>
    /\ sent = <<Msg(1, "noAnswersInFile", "ru")>>
    /\ HasSession(sessions, 1)
    /\ Session(1).currentIndex = 1
    /\ Len(Session(1).answers) = 1
    /\ \A k \in TaskIds : tasks[k].pc = "idle"

----------------------------------------------------------------------------
(* C35 *)

\* the step being taken sends conversation c the prompt of cursor value i
PromptStep(c, i) ==
    \E n \in 1..Len(sent') :
        /\ sent'[n][1] = "msg"
        /\ sent'[n][2] = c
        /\ sent'[n][3] = "question"
        /\ sent'[n][4][1] = i + 1

\* C35: a handler calls the summarization only for a session that has no
\* summary yet and for which no other call is in flight, so that the client
\* is invoked at most once per session; and no two successive steps of a
\* conversation send the prompt of the same cursor value of the same session.
C35_SummarizedOnce ==
    [][/\ \A k \in TaskIds :
            (tasks[k].pc = "notice" /\ tasks'[k].pc = "ai") =>
                /\ heap[tasks[k].obj].summary = Null
                /\ \A j \in TaskIds \ {k} :
                      ~(tasks[j].pc = "ai" /\ tasks[j].obj = tasks[k].obj)
       /\ \A c \in ChatIds, i \in 0..1 :
            (PromptStep(c, i) /\ sessions' = sessions) =>
                ~(\E n \in 1..Len(sent) :
                      /\ sent[n][1] = "msg"
                      /\ sent[n][2] = c
                      /\ sent[n][3] = "question"
                      /\ sent[n][4][1] = i + 1)]_vars

\* two handlers of one conversation have both called the summarization for
\* the same session
C35_Witness ==
    /\ tasks[1].pc = "ai"
    /\ tasks[2].pc = "ai"
    /\ tasks[1].obj = tasks[2].obj
    /\ tasks[1].obj = sessions[1]

----------------------------------------------------------------------------
(* C36 *)

\* conversation c has a handler in the pacing delay: an answer was stored
\* and the prompt of the new cursor value is still to be sent
Pacing(c) == \E k \in TaskIds : tasks[k].pc = "delay" /\ tasks[k].chat = c

\* the last step was a language or chain selection of conversation c, which
\* created or reset the session and sent no question
JustSelected(c) == last[1] \in {"lang", "chain"} /\ last[2] = c

\* C36: a text is stored as an answer only once the prompt of the cursor
\* value has been sent: not right after a language or chain selection, and
\* not while the handler of the previous answer is in its pacing delay.
C36_AnswerAfterPrompt ==
    [][\A c \in ChatIds, text \in Texts :
          AcceptStep(c, text) => (~JustSelected(c) /\ ~Pacing(c))]_vars

\* two answers are stored for a session of the two-question chain and no
\* prompt of the second question was sent: the second answer arrived during
\* the pacing delay of the first
C36_Witness ==
    /\ last = <<"text", 1, Text(1, "b3998", 1)>>
    /\ HasSession(sessions, 1)
    /\ Len(Session(1).answers) = 2
    /\ tasks[1].pc = "delay"
    /\ tasks[2].pc = "delay"
    /\ tasks[1].chat = 1
    /\ tasks[2].chat = 1

----------------------------------------------------------------------------
(* C37 *)

\* the question phase of the session of c is complete: Summarizing or Completed
Finished(c) == HasSession(sessions, c) /\ Session(c).currentIndex = QuestionTotal(c)

\* the step being taken sends a message of one of the given kinds
Sends(kinds) ==
    \E n \in 1..Len(sent') :
        \/ sent'[n][1] = "msg" /\ sent'[n][3] \in kinds
        \/ sent'[n][1] \in kinds

\* a text for a session whose question phase is complete changes no field of
\* the session, starts no handler, and sends neither a prompt nor the
\* analyzing notice nor a summarization request
TextLeavesFinished(c) ==
    \A text \in Texts :
        (Finished(c) /\ TextStep(c, text)) =>
            /\ sessions' = sessions
            /\ heap'[sessions[c]] = Session(c)
            /\ tasks' = tasks
            /\ ~Sends({"question", "analyzing", "generateSummary"})

\* a step that changes the entry or a field of a session whose question
\* phase is complete, or that starts a handler for its conversation, is an
\* export, a restart, a selection, a sweep, or the continuation of the
\* summarization already running
OnlyListedAct(c) ==
    (/\ Finished(c)
     /\ \/ sessions'[c] # sessions[c]
        \/ heap'[sessions[c]] # Session(c)
        \/ \E k \in TaskIds : tasks[k].pc = "idle" /\ tasks'[k].pc # "idle" /\ tasks'[k].chat = c)
    => last'[1] \in {"save_results", "restart", "lang", "chain", "sweep",
                     "delay", "notice", "summary"}

\* C37: in Summarizing and Completed a text changes nothing and triggers
\* nothing, and only export, restart, selection and expiry act on the session.
C37_FinishedIsFrozen ==
    [][\A c \in ChatIds : TextLeavesFinished(c) /\ OnlyListedAct(c)]_vars

----------------------------------------------------------------------------
(* C38 *)

\* the step being taken is handler k of conversation c resuming after the
\* pacing delay, a send or the summarization call
ResumeStep(c, k) ==
    /\ last'[1] \in {"delay", "notice", "summary", "document"}
    /\ last'[2] = c
    /\ last'[3] = k

\* C38: a handler that resumes never writes the store.  If the entry of its
\* conversation is gone (restart, sweep or shutdown removed it) it stays
\* gone, and after the pacing delay the handler then ends without sending
\* anything; if the entry holds another object than the one the handler
\* captured, a session made in the meantime, no field of that session
\* changes.  After the process has exited nothing changes at all.
C38_RemovedStaysRemoved ==
    [][/\ \A c \in ChatIds, k \in TaskIds :
            ResumeStep(c, k) =>
                /\ sessions' = sessions
                /\ ~HasSession(sessions, c) =>
                      /\ ~HasSession(sessions', c)
                      /\ last'[1] = "delay" => (sent' = <<>> /\ tasks'[k] = Idle)
                /\ (HasSession(sessions, c) /\ tasks[k].obj # sessions[c]) =>
                      heap'[sessions[c]] = Session(c)
       /\ process = "exited" => sessions' = sessions]_vars

\* the session was swept during the pacing delay of its first answer: the
\* handler resumed, found no session and ended without a message
C38_Witness ==
    /\ last = <<"delay", 1, 1>>
    /\ now = 31
    /\ ~HasSession(sessions, 1)
    /\ sent = <<>>
    /\ tasks[1] = Idle

----------------------------------------------------------------------------
(* C39 *)

\* the step being taken is the click of conversation c on the lesson button
\* of chain chainId
LessonStep(c, chainId) ==
    \/ last' = <<"chain", c, chainId>>
    \/ last' = <<"unrouted", c, <<"start_chain", chainId>>>>

\* C39: a click on any lesson button that the menu of the language selection
\* offers leaves the conversation with a session of the offered chain, with
\* cursor 0, no answers and no summary.
C39_OfferedButtonsAct ==
    [][\A c \in ChatIds, chainId \in OfferedChains :
          LessonStep(c, chainId) =>
              /\ HasSession(sessions', c)
              /\ heap'[sessions'[c]].chain = chainId
              /\ heap'[sessions'[c]].currentIndex = 0
              /\ heap'[sessions'[c]].answers = <<>>
              /\ heap'[sessions'[c]].summary = Null]_vars

\* the third lesson button was clicked on the menu that offered it, and the
\* session is still on chain 1
C39_Witness ==
    /\ last = <<"unrouted", 1, <<"start_chain", 3>>>>
    /\ HasSession(sessions, 1)
    /\ Session(1).chain = 1
    /\ sent = <<>>

====
